---- MODULE Spec2Model ----
(***************************************************************************)
(* Play-by-play game analysis of LNP_data: the comeback / blown-lead       *)
(* tracker (functions/pbp_analysis.py, compute_comeback_stats), the        *)
(* scoring-run detector (compute_scoring_runs) and the per-event points    *)
(* derivation of the store (functions/scraper.py, enrich_pbp_dataframe),   *)
(* the path of an event from the scraped page to the loaded frame          *)
(* (read_play_by_play, scrape_campionato, load_pbp_data) and the clutch    *)
(* tables (compute_clutch_stats and its two ranked views); then the team   *)
(* tables of the runs and comebacks and the report section that reads      *)
(* them (functions/site_pages.py, generate_partite_andamento), the quarter *)
(* distribution (compute_quarter_distribution), the combined load of the   *)
(* two groups of serie B, the incremental merge of the store and the loop  *)
(* of scrape_campionato over the game codes with its three stores.         *)
(*                                                                         *)
(* A play-by-play frame is a sequence of rows; a row carries the columns   *)
(* the analysed functions read: game_code, total_seconds, score_home,      *)
(* score_away.  The gap column is score_home - score_away.                 *)
(***************************************************************************)
EXTENDS Integers, Sequences, FiniteSets, TLC

(* ------------------------------ bounds -------------------------------- *)

\* rows of a frame
MaxEvents == 3
\* distinct values of total_seconds
MaxTime == 2
\* score_home + score_away of a row is at most MaxTotal
MaxTotal == 3
\* the min_deficit argument of compute_comeback_stats, scaled to MaxTotal
min_deficit == 1
\* the comeback_threshold argument of compute_comeback_stats, scaled
comeback_threshold == 0
\* scoring plays of a well-formed game
MaxPlays == 4
\* the min_run argument of compute_scoring_runs (its default)
min_run == 8
\* points of one scoring play (free throw, field goal, three-pointer)
MaxPoints == 3

VARIABLES
    pc,               \* position of the analysis: "ready" or "done"
    pbp_df,           \* the play-by-play frame handed to the analysis
    game_df,          \* compute_comeback_stats: game_code -> sorted, filtered rows
    comeback_data,    \* compute_comeback_stats: emitted comeback records
    blown_lead_data,  \* compute_comeback_stats: emitted blown-lead records
    run_df,           \* compute_scoring_runs: game_code -> rows in scan order
    scan_trace,       \* compute_scoring_runs: game_code -> state of the score
                      \* scan after each row (running score, score_changes)
    runs_data,        \* compute_scoring_runs: emitted run records
    enriched,         \* enrich_pbp_dataframe: the sorted frame with its points
    page,             \* the play-by-play events of the scraped page
    pbp_events,       \* read_play_by_play: the event list of the game
    store,            \* scrape_campionato: the play-by-play store (pickle)
    loaded,           \* load_pbp_data: the frame handed to the clutch analysis
    clutch_stats,     \* compute_clutch_stats: one line per (player, team)
    closers,          \* compute_closer_rankings: the ranked lines
    responsibility,   \* compute_clutch_responsibility: the ranked lines
    team_runs,        \* compute_scoring_runs: the returned table, one line per team
    comebacks,        \* compute_comeback_stats: the aggregate table, one line per team
    returned,         \* compute_comeback_stats: the value handed to the caller
    raised,           \* generate_partite_andamento: the exception raised, "" for none
    quarters_df,      \* compute_quarter_distribution: one record per game
    games_df,         \* compute_quarter_distribution: the expanded rows
    team_quarters,    \* compute_quarter_distribution: the returned table
    pbp_b_a,          \* the play-by-play store of serie_b_girone_a (pbp_b_a.pkl)
    pbp_b_b,          \* the play-by-play store of serie_b_girone_b (pbp_b_b.pkl)
    site,             \* what the page of each game code holds
    end_code,         \* scrape_campionato: config['end_code'], <<>> for None, <<n>> for n
    incremental,      \* scrape_campionato: the incremental argument of the run
    include_pbp,      \* scrape_campionato: the include_pbp argument of the run
    stats_file,       \* game codes of the statistics store (season_stats_*.pkl)
    pbp_file,         \* game codes of the play-by-play store (pbp_*.pkl)
    quarters_file,    \* game codes of the quarters store (quarters_*.pkl)
    scraped_codes,    \* scrape_campionato: get_scraped_games(existing_df)
    code,             \* scrape_campionato: the code the loop is at
    empty_streak,     \* scrape_campionato: consecutive empty pages
    new_games,        \* scrape_campionato: codes of the games fetched by the run
    new_pbp_events,   \* scrape_campionato: codes of the events fetched by the run
    new_quarters_list,\* scrape_campionato: codes of the quarter records fetched
    visited,          \* scrape_campionato: what the loop did at each code, in order
    runs_done         \* completed runs of scrape_campionato

\* the variables of the run, comeback and points analyses
analysisVars == <<pbp_df, game_df, comeback_data, blown_lead_data,
                  run_df, scan_trace, runs_data, enriched>>

\* the variables of the scrape / load / clutch pipeline
pipeVars == <<page, pbp_events, store, loaded, clutch_stats, closers, responsibility>>

\* the tables handed to the report and what the report does with them
reportVars == <<team_runs, comebacks, returned, raised>>

\* the variables of the quarter distribution
quarterVars == <<quarters_df, games_df, team_quarters>>

\* the stores of the two groups of serie B
competitionVars == <<pbp_b_a, pbp_b_b>>

\* the variables of the scrape loop and its three stores
scrapeVars == <<site, end_code, incremental, include_pbp, stats_file, pbp_file,
                quarters_file, scraped_codes, code, empty_streak, new_games,
                new_pbp_events, new_quarters_list, visited, runs_done>>

vars == <<pc, analysisVars, pipeVars, reportVars, quarterVars, competitionVars,
          scrapeVars>>

\* nothing scraped, stored, loaded or aggregated yet
PipeIdle ==
    /\ page = <<>>
    /\ pbp_events = <<>>
    /\ store = <<>>
    /\ loaded = <<>>
    /\ clutch_stats = <<>>
    /\ closers = <<>>
    /\ responsibility = <<>>

\* nothing analysed yet
AnalysisIdle ==
    /\ pbp_df = <<>>
    /\ game_df = <<>>
    /\ comeback_data = <<>>
    /\ blown_lead_data = <<>>
    /\ run_df = <<>>
    /\ scan_trace = <<>>
    /\ runs_data = <<>>
    /\ enriched = <<>>

\* no table reported yet
ReportIdle ==
    /\ team_runs = <<>>
    /\ comebacks = <<>>
    /\ returned = <<>>
    /\ raised = ""

\* no quarter record read yet
QuarterIdle ==
    /\ quarters_df = <<>>
    /\ games_df = <<>>
    /\ team_quarters = <<>>

\* no store of serie B read yet
CompetitionIdle ==
    /\ pbp_b_a = <<>>
    /\ pbp_b_b = <<>>

\* no scrape run started
ScrapeIdle ==
    /\ site = <<>>
    /\ end_code = <<>>
    /\ incremental = FALSE
    /\ include_pbp = FALSE
    /\ stats_file = {}
    /\ pbp_file = {}
    /\ quarters_file = {}
    /\ scraped_codes = {}
    /\ code = 0
    /\ empty_streak = 0
    /\ new_games = {}
    /\ new_pbp_events = {}
    /\ new_quarters_list = {}
    /\ visited = <<>>
    /\ runs_done = 0

(* ------------------------------ helpers ------------------------------- *)

Abs(x) == IF x < 0 THEN -x ELSE x

Last(s) == s[Len(s)]

\* n / d rounded to the nearest integer, halves to the even one (the rounding
\* of round() on a value scaled by a power of ten)
RoundHalfEven(n, d) ==
    LET q == n \div d
        r == n % d
    IN  IF 2 * r < d THEN q
        ELSE IF 2 * r > d THEN q + 1
        ELSE IF q % 2 = 0 THEN q ELSE q + 1

\* sort_values(key, ascending=False): the lines in an order of descending key,
\* lines of equal key in any order
DescendingOrders(lines, key) ==
    {s \in [1..Cardinality(lines) -> lines] :
        /\ \A i, j \in 1..Cardinality(lines) : i # j => s[i] # s[j]
        /\ \A i \in 1..(Cardinality(lines) - 1) : s[i][key] >= s[i + 1][key]}

\* sum of a column
RECURSIVE ColumnSum(_, _)
ColumnSum(df, key) ==
    IF df = <<>> THEN 0 ELSE Head(df)[key] + ColumnSum(Tail(df), key)

\* max of a column; 0 for a team without rows (the fillna(0) of the outer merge)
ColumnMax(df, key) ==
    IF df = <<>> THEN 0
    ELSE CHOOSE x \in {df[k][key] : k \in 1..Len(df)} :
            \A k \in 1..Len(df) : df[k][key] <= x

\* mean of a column rounded to one decimal, in tenths; 0 for no rows
ColumnMeanTenths(df, key) ==
    IF df = <<>> THEN 0 ELSE RoundHalfEven(ColumnSum(df, key) * 10, Len(df))

\* gap column: score_home - score_away
Gap(e) == e.score_home - e.score_away

\* home_team / away_team columns of a game (the fixture list)
HomeTeamOf(g) == IF g % 2 = 1 THEN "A" ELSE "B"

AwayTeamOf(g) == IF g % 2 = 1 THEN "B" ELSE "A"

\* pbp_df[pbp_df['game_code'] == game_code]
RECURSIVE RowsOfGame(_, _)
RowsOfGame(df, g) ==
    IF df = <<>> THEN <<>>
    ELSE IF Head(df).game_code = g
         THEN <<Head(df)>> \o RowsOfGame(Tail(df), g)
         ELSE RowsOfGame(Tail(df), g)

\* pbp_df['game_code'].unique(): the codes in order of first appearance
RECURSIVE UniqueGameCodes(_, _)
UniqueGameCodes(df, seen) ==
    IF df = <<>> THEN <<>>
    ELSE IF Head(df).game_code \in seen
         THEN UniqueGameCodes(Tail(df), seen)
         ELSE <<Head(df).game_code>>
              \o UniqueGameCodes(Tail(df), seen \cup {Head(df).game_code})

(* ------------------- compute_comeback_stats: sorting ------------------ *)

\* sort key of compute_comeback_stats: (total_seconds, total_score)
ComebackKeyLess(a, b) ==
    \/ a.total_seconds < b.total_seconds
    \/ /\ a.total_seconds = b.total_seconds
       /\ a.score_home + a.score_away < b.score_home + b.score_away

\* stable insertion of e into a sequence sorted by ComebackKeyLess
RECURSIVE ComebackInsert(_, _)
ComebackInsert(e, s) ==
    IF s = <<>> THEN <<e>>
    ELSE IF ComebackKeyLess(e, Head(s))
         THEN <<e>> \o s
         ELSE <<Head(s)>> \o ComebackInsert(e, Tail(s))

\* game_df.sort_values(['total_seconds', 'total_score']) (stable)
RECURSIVE SortByTimeAndTotal(_)
SortByTimeAndTotal(df) ==
    IF df = <<>> THEN <<>>
    ELSE ComebackInsert(Last(df), SortByTimeAndTotal(SubSeq(df, 1, Len(df) - 1)))

(* --------------- compute_comeback_stats: corruption filter ------------ *)

\* ValidMaskFrom with a tolerance of two points instead of one
RECURSIVE ValidMaskFromTolerance2(_, _, _, _)
ValidMaskFromTolerance2(df, i, prev_home, prev_away) ==
    IF i > Len(df) THEN <<>>
    ELSE IF df[i].score_home >= prev_home - 2 /\ df[i].score_away >= prev_away - 2
         THEN <<TRUE>> \o ValidMaskFromTolerance2(df, i + 1, df[i].score_home,
                                                  df[i].score_away)
         ELSE <<FALSE>> \o ValidMaskFromTolerance2(df, i + 1, prev_home, prev_away)

\* the loop over rows 2..n that builds valid_mask: a row is kept when neither
\* score drops more than one point below the last kept row
RECURSIVE ValidMaskFrom(_, _, _, _)
ValidMaskFrom(df, i, prev_home, prev_away) ==
    IF i > Len(df) THEN <<>>
    ELSE IF df[i].score_home >= prev_home - 1 /\ df[i].score_away >= prev_away - 1
         THEN <<TRUE>> \o ValidMaskFrom(df, i + 1, df[i].score_home, df[i].score_away)
         ELSE <<FALSE>> \o ValidMaskFrom(df, i + 1, prev_home, prev_away)

\* valid_mask: the first row is always valid
ValidMask(df) ==
    <<TRUE>> \o ValidMaskFrom(df, 2, df[1].score_home, df[1].score_away)

\* game_df[valid_mask]
RECURSIVE SelectByMask(_, _)
SelectByMask(df, mask) ==
    IF df = <<>> THEN <<>>
    ELSE IF Head(mask)
         THEN <<Head(df)>> \o SelectByMask(Tail(df), Tail(mask))
         ELSE SelectByMask(Tail(df), Tail(mask))

\* the rows of one game as the tracker scans them: sorted, then filtered
FilteredGame(rows) ==
    LET sorted == SortByTimeAndTotal(rows)
    IN  SelectByMask(sorted, ValidMask(sorted))

\* home_won = final_gap > 0, from the last retained row
HomeWon(df) == Last(df).score_home - Last(df).score_away > 0

(* --------------- compute_comeback_stats: home team -------------------- *)

\* state of the deficit scan before the first row
DeficitScanStart == [max_deficit |-> 0, max_deficit_time |-> 0, came_back |-> FALSE]

\* HomeDeficitScan without the break: the scan goes on after the recovery
RECURSIVE HomeDeficitScanNoBreak(_, _, _)
HomeDeficitScanNoBreak(df, i, st) ==
    IF i > Len(df) THEN st
    ELSE LET gap == Gap(df[i])
             st1 == IF gap < -min_deficit /\ Abs(gap) > st.max_deficit
                    THEN [st EXCEPT !.max_deficit = Abs(gap),
                                    !.max_deficit_time = df[i].total_seconds]
                    ELSE st
         IN  IF st1.max_deficit >= min_deficit /\ gap >= -comeback_threshold
             THEN HomeDeficitScanNoBreak(df, i + 1, [st1 EXCEPT !.came_back = TRUE])
             ELSE HomeDeficitScanNoBreak(df, i + 1, st1)

\* the first loop for the home team: track the deepest deficit beyond
\* min_deficit and stop at the first row that is back within the threshold
RECURSIVE HomeDeficitScan(_, _, _)
HomeDeficitScan(df, i, st) ==
    IF i > Len(df) THEN st
    ELSE LET gap == Gap(df[i])
             st1 == IF gap < -min_deficit /\ Abs(gap) > st.max_deficit
                    THEN [st EXCEPT !.max_deficit = Abs(gap),
                                    !.max_deficit_time = df[i].total_seconds]
                    ELSE st
         IN  IF st1.max_deficit >= min_deficit /\ gap >= -comeback_threshold
             THEN [st1 EXCEPT !.came_back = TRUE]
             ELSE HomeDeficitScan(df, i + 1, st1)

\* HomeBestAfter counting only the rows later than the time of the deficit
RECURSIVE HomeBestAfterStrictlyLater(_, _, _, _, _)
HomeBestAfterStrictlyLater(df, i, deficit_time, passed, best) ==
    IF i > Len(df) THEN best
    ELSE LET passed1 == passed \/ df[i].total_seconds > deficit_time
             best1 == IF passed1 /\ Gap(df[i]) > best.gap
                      THEN [gap |-> Gap(df[i]), time |-> df[i].total_seconds]
                      ELSE best
         IN  HomeBestAfterStrictlyLater(df, i + 1, deficit_time, passed1, best1)

\* the second loop for the home team: best gap among the rows from the first
\* one whose total_seconds reaches the time of the deepest deficit
RECURSIVE HomeBestAfter(_, _, _, _, _)
HomeBestAfter(df, i, deficit_time, passed, best) ==
    IF i > Len(df) THEN best
    ELSE LET passed1 == passed \/ df[i].total_seconds >= deficit_time
             best1 == IF passed1 /\ Gap(df[i]) > best.gap
                      THEN [gap |-> Gap(df[i]), time |-> df[i].total_seconds]
                      ELSE best
         IN  HomeBestAfter(df, i + 1, deficit_time, passed1, best1)

\* the comeback record appended for the home team
HomeComebackRecord(g, df, st, best) ==
    [team |-> HomeTeamOf(g), opponent |-> AwayTeamOf(g),
     deficit |-> st.max_deficit, deficit_time |-> st.max_deficit_time,
     best_after |-> best.gap, best_after_time |-> best.time,
     won |-> HomeWon(df), game_code |-> g]

\* the blown-lead record appended with it (the away team's view)
HomeBlownLeadRecord(g, df, st, best) ==
    [team |-> AwayTeamOf(g), opponent |-> HomeTeamOf(g),
     max_lead |-> st.max_deficit, max_lead_time |-> st.max_deficit_time,
     worst_after |-> -best.gap, worst_after_time |-> best.time,
     lost |-> HomeWon(df), game_code |-> g]

\* HomeComebacks appending a record at every row that is back within the
\* threshold after the deficit, instead of once after the scan
HomeComebacksPerRecovery(g, df) ==
    LET st == HomeDeficitScan(df, 1, DeficitScanStart)
        best == HomeBestAfter(df, 1, st.max_deficit_time, FALSE,
                              [gap |-> -st.max_deficit, time |-> st.max_deficit_time])
        rec == HomeComebackRecord(g, df, st, best)
        Recovered(j) == /\ Gap(df[j]) >= -comeback_threshold
                        /\ \E i \in 1..(j - 1) : Gap(df[i]) < -min_deficit
    IN  IF st.max_deficit >= min_deficit /\ st.came_back
        THEN [n \in 1..Cardinality({j \in 1..Len(df) : Recovered(j)}) |-> rec]
        ELSE <<>>

\* the comeback records the home branch appends for one game (none or one)
HomeComebacks(g, df) ==
    LET st == HomeDeficitScan(df, 1, DeficitScanStart)
        best == HomeBestAfter(df, 1, st.max_deficit_time, FALSE,
                              [gap |-> -st.max_deficit, time |-> st.max_deficit_time])
    IN  IF st.max_deficit >= min_deficit /\ st.came_back
        THEN <<HomeComebackRecord(g, df, st, best)>>
        ELSE <<>>

\* the blown-lead records the home branch appends for one game
HomeBlownLeads(g, df) ==
    LET st == HomeDeficitScan(df, 1, DeficitScanStart)
        best == HomeBestAfter(df, 1, st.max_deficit_time, FALSE,
                              [gap |-> -st.max_deficit, time |-> st.max_deficit_time])
    IN  IF st.max_deficit >= min_deficit /\ st.came_back
        THEN <<HomeBlownLeadRecord(g, df, st, best)>>
        ELSE <<>>

(* --------------- compute_comeback_stats: away team -------------------- *)

\* the first loop for the away team (a positive gap is the away deficit)
RECURSIVE AwayDeficitScan(_, _, _)
AwayDeficitScan(df, i, st) ==
    IF i > Len(df) THEN st
    ELSE LET gap == Gap(df[i])
             st1 == IF gap > min_deficit /\ gap > st.max_deficit
                    THEN [st EXCEPT !.max_deficit = gap,
                                    !.max_deficit_time = df[i].total_seconds]
                    ELSE st
         IN  IF st1.max_deficit >= min_deficit /\ gap <= comeback_threshold
             THEN [st1 EXCEPT !.came_back = TRUE]
             ELSE AwayDeficitScan(df, i + 1, st1)

\* the second loop for the away team: the lowest gap is the best one
RECURSIVE AwayBestAfter(_, _, _, _, _)
AwayBestAfter(df, i, deficit_time, passed, best) ==
    IF i > Len(df) THEN best
    ELSE LET passed1 == passed \/ df[i].total_seconds >= deficit_time
             best1 == IF passed1 /\ Gap(df[i]) < best.gap
                      THEN [gap |-> Gap(df[i]), time |-> df[i].total_seconds]
                      ELSE best
         IN  AwayBestAfter(df, i + 1, deficit_time, passed1, best1)

\* the comeback record appended for the away team
AwayComebackRecord(g, df, st, best) ==
    [team |-> AwayTeamOf(g), opponent |-> HomeTeamOf(g),
     deficit |-> st.max_deficit, deficit_time |-> st.max_deficit_time,
     best_after |-> -best.gap, best_after_time |-> best.time,
     won |-> ~HomeWon(df), game_code |-> g]

\* AwayBlownLeadRecord with the lost flag copied from the home branch
AwayBlownLeadRecordLostAsHomeWon(g, df, st, best) ==
    [team |-> HomeTeamOf(g), opponent |-> AwayTeamOf(g),
     max_lead |-> st.max_deficit, max_lead_time |-> st.max_deficit_time,
     worst_after |-> best.gap, worst_after_time |-> best.time,
     lost |-> HomeWon(df), game_code |-> g]

\* the blown-lead record appended with it (the home team's view)
AwayBlownLeadRecord(g, df, st, best) ==
    [team |-> HomeTeamOf(g), opponent |-> AwayTeamOf(g),
     max_lead |-> st.max_deficit, max_lead_time |-> st.max_deficit_time,
     worst_after |-> best.gap, worst_after_time |-> best.time,
     lost |-> ~HomeWon(df), game_code |-> g]

\* the comeback records the away branch appends for one game (none or one)
AwayComebacks(g, df) ==
    LET st == AwayDeficitScan(df, 1, DeficitScanStart)
        best == AwayBestAfter(df, 1, st.max_deficit_time, FALSE,
                              [gap |-> st.max_deficit, time |-> st.max_deficit_time])
    IN  IF st.max_deficit >= min_deficit /\ st.came_back
        THEN <<AwayComebackRecord(g, df, st, best)>>
        ELSE <<>>

\* the blown-lead records the away branch appends for one game
AwayBlownLeads(g, df) ==
    LET st == AwayDeficitScan(df, 1, DeficitScanStart)
        best == AwayBestAfter(df, 1, st.max_deficit_time, FALSE,
                              [gap |-> st.max_deficit, time |-> st.max_deficit_time])
    IN  IF st.max_deficit >= min_deficit /\ st.came_back
        THEN <<AwayBlownLeadRecord(g, df, st, best)>>
        ELSE <<>>

(* --------------- compute_comeback_stats: the loop over games ---------- *)

\* comeback_data after the games in `codes` (home record, then away record)
RECURSIVE ComebackData(_, _)
ComebackData(df, codes) ==
    IF codes = <<>> THEN <<>>
    ELSE LET g == Head(codes)
             gdf == FilteredGame(RowsOfGame(df, g))
         IN  HomeComebacks(g, gdf) \o AwayComebacks(g, gdf)
             \o ComebackData(df, Tail(codes))

\* blown_lead_data after the games in `codes`
RECURSIVE BlownLeadData(_, _)
BlownLeadData(df, codes) ==
    IF codes = <<>> THEN <<>>
    ELSE LET g == Head(codes)
             gdf == FilteredGame(RowsOfGame(df, g))
         IN  HomeBlownLeads(g, gdf) \o AwayBlownLeads(g, gdf)
             \o BlownLeadData(df, Tail(codes))

\* the filtered frame of every game of the input
GameFrames(df) ==
    LET codes == UniqueGameCodes(df, {})
    IN  [g \in {codes[k] : k \in 1..Len(codes)} |-> FilteredGame(RowsOfGame(df, g))]

(* --------------- compute_comeback_stats: the team table --------------- *)

\* the line of a team: comeback_df.groupby('team') merged (outer, fillna(0))
\* with blown_df.groupby('team'); avg_deficit in tenths
ComebackLine(cb, bl, team) ==
    LET made == SelectSeq(cb, LAMBDA r : r.team = team)
        blown == SelectSeq(bl, LAMBDA r : r.team = team)
        comeback_wins == Len(SelectSeq(made, LAMBDA r : r.won))
        blown_losses == Len(SelectSeq(blown, LAMBDA r : r.lost))
    IN  [team |-> team,
         comebacks |-> Len(made),
         max_deficit |-> ColumnMax(made, "deficit"),
         avg_deficit |-> ColumnMeanTenths(made, "deficit"),
         comeback_wins |-> comeback_wins,
         blown_leads |-> Len(blown),
         worst_blown |-> ColumnMax(blown, "max_lead"),
         blown_losses |-> blown_losses,
         comeback_score |-> comeback_wins * 2 + Len(made)
                            - blown_losses * 2 - Len(blown)]

\* the lines of the aggregate table: one per team with a comeback or a blown
\* lead; none when there is no comeback record
ComebackLines(cb, bl) ==
    IF cb = <<>> THEN {}
    ELSE {ComebackLine(cb, bl, t) :
            t \in {cb[k].team : k \in 1..Len(cb)} \cup {bl[k].team : k \in 1..Len(bl)}}

\* the aggregate tables compute_comeback_stats may return: sorted by
\* comeback_score, descending
ComebackTables(cb, bl) == DescendingOrders(ComebackLines(cb, bl), "comeback_score")

\* a DataFrame and a tuple, as the caller sees them
DataFrame(rows) == [frame |-> rows]

TupleOf(items) == [tuple |-> items]

\* the value compute_comeback_stats returns: two empty frames for an empty
\* input, else the aggregate, the comeback details and the blown-lead details
\* (three empty frames when there is no comeback record)
ReturnValue(df, table, cb, bl) ==
    IF df = <<>>
    THEN TupleOf(<<DataFrame(<<>>), DataFrame(<<>>)>>)
    ELSE IF cb = <<>>
         THEN TupleOf(<<DataFrame(<<>>), DataFrame(<<>>), DataFrame(<<>>)>>)
         ELSE TupleOf(<<DataFrame(table), DataFrame(cb), DataFrame(bl)>>)

\* compute_comeback_stats(pbp_df): the whole call
ComputeComebackStats ==
    /\ pc = "ready"
    /\ pc' = "done"
    /\ game_df' = GameFrames(pbp_df)
    /\ comeback_data' = ComebackData(pbp_df, UniqueGameCodes(pbp_df, {}))
    /\ blown_lead_data' = BlownLeadData(pbp_df, UniqueGameCodes(pbp_df, {}))
    /\ comebacks' \in ComebackTables(comeback_data', blown_lead_data')
    /\ returned' = ReturnValue(pbp_df, comebacks', comeback_data', blown_lead_data')
    /\ UNCHANGED <<pbp_df, run_df, scan_trace, runs_data, enriched>>
    /\ UNCHANGED pipeVars
    /\ UNCHANGED <<team_runs, raised>>
    /\ UNCHANGED <<quarterVars, competitionVars, scrapeVars>>

(* ------------------- compute_scoring_runs: score scan ----------------- *)

\* the orders game_df.sort_values('total_seconds') may leave the rows in: the
\* sort is not stable, so rows of equal total_seconds come in any order
TimeSortedOrders(rows) ==
    {[i \in 1..Len(rows) |-> rows[p[i]]] :
        p \in {q \in Permutations(1..Len(rows)) :
                 \A i \in 1..Len(rows) : \A j \in (i + 1)..Len(rows) :
                     rows[q[i]].total_seconds <= rows[q[j]].total_seconds}}

\* state of the score scan before the first row
ScanStart == [prev_home |-> 0, prev_away |-> 0, score_changes |-> <<>>]

\* ScanStep taking a regressing row as the new running score
ScanStepAdvancingOnRegression(st, event) ==
    LET curr_home == event.score_home
        curr_away == event.score_away
        home_pts == curr_home - st.prev_home
        away_pts == curr_away - st.prev_away
    IN  IF curr_home = st.prev_home /\ curr_away = st.prev_away THEN st
        ELSE IF curr_home < st.prev_home \/ curr_away < st.prev_away
             THEN [st EXCEPT !.prev_home = curr_home, !.prev_away = curr_away]
        ELSE [prev_home |-> curr_home, prev_away |-> curr_away,
              score_changes |->
                 IF home_pts > 0 /\ away_pts = 0
                 THEN Append(st.score_changes, <<"home", home_pts>>)
                 ELSE IF away_pts > 0 /\ home_pts = 0
                      THEN Append(st.score_changes, <<"away", away_pts>>)
                      ELSE st.score_changes]

\* ScanStep crediting the home side when both scores rise
ScanStepAttributingBoth(st, event) ==
    LET curr_home == event.score_home
        curr_away == event.score_away
        home_pts == curr_home - st.prev_home
        away_pts == curr_away - st.prev_away
    IN  IF curr_home = st.prev_home /\ curr_away = st.prev_away THEN st
        ELSE IF curr_home < st.prev_home \/ curr_away < st.prev_away THEN st
        ELSE [prev_home |-> curr_home, prev_away |-> curr_away,
              score_changes |->
                 IF home_pts > 0
                 THEN Append(st.score_changes, <<"home", home_pts>>)
                 ELSE IF away_pts > 0
                      THEN Append(st.score_changes, <<"away", away_pts>>)
                      ELSE st.score_changes]

\* one iteration of the loop over the rows of a game
ScanStep(st, event) ==
    LET curr_home == event.score_home
        curr_away == event.score_away
        home_pts == curr_home - st.prev_home
        away_pts == curr_away - st.prev_away
    IN  IF curr_home = st.prev_home /\ curr_away = st.prev_away THEN st
        ELSE IF curr_home < st.prev_home \/ curr_away < st.prev_away THEN st
        ELSE [prev_home |-> curr_home, prev_away |-> curr_away,
              score_changes |->
                 IF home_pts > 0 /\ away_pts = 0
                 THEN Append(st.score_changes, <<"home", home_pts>>)
                 ELSE IF away_pts > 0 /\ home_pts = 0
                      THEN Append(st.score_changes, <<"away", away_pts>>)
                      ELSE st.score_changes]

\* the states of the scan after each of the first k rows
RECURSIVE ScanTrace(_, _)
ScanTrace(df, k) ==
    IF k = 0 THEN <<>>
    ELSE LET t == ScanTrace(df, k - 1)
             before == IF k = 1 THEN ScanStart ELSE t[k - 1]
         IN  Append(t, ScanStep(before, df[k]))

\* score_changes of a game once all its rows are scanned
ScoreChanges(df) ==
    IF df = <<>> THEN <<>> ELSE ScanTrace(df, Len(df))[Len(df)].score_changes

(* ------------------- compute_scoring_runs: run detection -------------- *)

\* state of the run loop before the first score change
RunStart == [current_run_team |-> "None", current_run_points |-> 0, runs |-> <<>>]

\* the record appended for the run that is open in rs
RunRecord(g, rs) ==
    [team |-> rs.current_run_team,
     opponent |-> IF rs.current_run_team = HomeTeamOf(g)
                  THEN AwayTeamOf(g) ELSE HomeTeamOf(g),
     run_points |-> rs.current_run_points,
     game_code |-> g]

\* SaveRun saving a run only above min_run points
SaveRunAboveMin(g, rs) ==
    IF rs.current_run_points > min_run /\ rs.current_run_team # "None"
    THEN Append(rs.runs, RunRecord(g, rs))
    ELSE rs.runs

\* the runs with the open run saved when it is significant
SaveRun(g, rs) ==
    IF rs.current_run_points >= min_run /\ rs.current_run_team # "None"
    THEN Append(rs.runs, RunRecord(g, rs))
    ELSE rs.runs

\* RunStep carrying the points of the closed run into the new run
RunStepKeepingPoints(g, rs, change) ==
    LET scoring_team == IF change[1] = "home" THEN HomeTeamOf(g) ELSE AwayTeamOf(g)
    IN  IF scoring_team = rs.current_run_team
        THEN [rs EXCEPT !.current_run_points = rs.current_run_points + change[2]]
        ELSE [current_run_team |-> scoring_team,
              current_run_points |-> rs.current_run_points + change[2],
              runs |-> SaveRun(g, rs)]

\* one iteration of the loop over score_changes
RunStep(g, rs, change) ==
    LET scoring_team == IF change[1] = "home" THEN HomeTeamOf(g) ELSE AwayTeamOf(g)
    IN  IF scoring_team = rs.current_run_team
        THEN [rs EXCEPT !.current_run_points = rs.current_run_points + change[2]]
        ELSE [current_run_team |-> scoring_team,
              current_run_points |-> change[2],
              runs |-> SaveRun(g, rs)]

\* the run loop over the first k score changes
RECURSIVE RunLoop(_, _, _)
RunLoop(g, changes, k) ==
    IF k = 0 THEN RunStart
    ELSE RunStep(g, RunLoop(g, changes, k - 1), changes[k])

\* the runs of one game: the loop, then the last open run
RunsOfGame(g, changes) == SaveRun(g, RunLoop(g, changes, Len(changes)))

\* RunsData leaving the loop over the games at a game without score change
RECURSIVE RunsDataStoppingAtEmptyGame(_, _)
RunsDataStoppingAtEmptyGame(sorted, codes) ==
    IF codes = <<>> THEN <<>>
    ELSE IF ScoreChanges(sorted[Head(codes)]) = <<>> THEN <<>>
    ELSE RunsOfGame(Head(codes), ScoreChanges(sorted[Head(codes)]))
         \o RunsDataStoppingAtEmptyGame(sorted, Tail(codes))

\* runs_data after the games in `codes`, each scanned in the order sorted[g]
RECURSIVE RunsData(_, _)
RunsData(sorted, codes) ==
    IF codes = <<>> THEN <<>>
    ELSE RunsOfGame(Head(codes), ScoreChanges(sorted[Head(codes)]))
         \o RunsData(sorted, Tail(codes))

\* one scan order for every game of the frame
SortChoices(df) ==
    LET codes == UniqueGameCodes(df, {})
        G == {codes[k] : k \in 1..Len(codes)}
        All == UNION {TimeSortedOrders(RowsOfGame(df, g)) : g \in G}
    IN  {f \in [G -> All] : \A g \in G : f[g] \in TimeSortedOrders(RowsOfGame(df, g))}

(* ------------------- compute_scoring_runs: the team table ------------- *)

\* TeamRunLine with best_run taken from the first run of the team in runs_df
TeamRunLineBestOfFirstRun(runs, team) ==
    LET made == SelectSeq(runs, LAMBDA r : r.team = team)
        allowed == SelectSeq(runs, LAMBDA r : r.opponent = team)
    IN  [team |-> team,
         runs_made |-> Len(made),
         best_run |-> IF made = <<>> THEN 0 ELSE made[1].run_points,
         avg_run_made |-> ColumnMeanTenths(made, "run_points"),
         runs_allowed |-> Len(allowed),
         worst_run_allowed |-> ColumnMax(allowed, "run_points"),
         avg_run_allowed |-> ColumnMeanTenths(allowed, "run_points"),
         run_diff |-> Len(made) - Len(allowed)]

\* the line of a team: runs_df.groupby('team') merged (outer, fillna(0)) with
\* runs_df.groupby('opponent'); the averages in tenths
TeamRunLine(runs, team) ==
    LET made == SelectSeq(runs, LAMBDA r : r.team = team)
        allowed == SelectSeq(runs, LAMBDA r : r.opponent = team)
    IN  [team |-> team,
         runs_made |-> Len(made),
         best_run |-> ColumnMax(made, "run_points"),
         avg_run_made |-> ColumnMeanTenths(made, "run_points"),
         runs_allowed |-> Len(allowed),
         worst_run_allowed |-> ColumnMax(allowed, "run_points"),
         avg_run_allowed |-> ColumnMeanTenths(allowed, "run_points"),
         run_diff |-> Len(made) - Len(allowed)]

\* the lines of the table: one per team that made or allowed a run
TeamRunLines(runs) ==
    {TeamRunLine(runs, t) :
        t \in {runs[k].team : k \in 1..Len(runs)}
              \cup {runs[k].opponent : k \in 1..Len(runs)}}

\* the tables compute_scoring_runs may return: sorted by run_diff, descending;
\* an empty frame when no run was found
TeamRunTables(runs) == DescendingOrders(TeamRunLines(runs), "run_diff")

\* compute_scoring_runs(pbp_df): the whole call
ComputeScoringRuns ==
    /\ pc = "ready"
    /\ pc' = "done"
    /\ \E sorted \in SortChoices(pbp_df) :
          /\ run_df' = sorted
          /\ scan_trace' = [g \in DOMAIN sorted |-> ScanTrace(sorted[g], Len(sorted[g]))]
          /\ runs_data' = RunsData(sorted, UniqueGameCodes(pbp_df, {}))
    /\ team_runs' \in TeamRunTables(runs_data')
    /\ UNCHANGED <<pbp_df, game_df, comeback_data, blown_lead_data, enriched>>
    /\ UNCHANGED pipeVars
    /\ UNCHANGED <<comebacks, returned, raised>>
    /\ UNCHANGED <<quarterVars, competitionVars, scrapeVars>>

(* ------------------- enrich_pbp_dataframe: points --------------------- *)

\* sort key of the store: (game_code, total_seconds, score_home, score_away)
StoreKeyLess(a, b) ==
    \/ a.game_code < b.game_code
    \/ /\ a.game_code = b.game_code
       /\ \/ a.total_seconds < b.total_seconds
          \/ /\ a.total_seconds = b.total_seconds
             /\ \/ a.score_home < b.score_home
                \/ /\ a.score_home = b.score_home
                   /\ a.score_away < b.score_away

\* stable insertion of e into a sequence sorted by StoreKeyLess
RECURSIVE StoreInsert(_, _)
StoreInsert(e, s) ==
    IF s = <<>> THEN <<e>>
    ELSE IF StoreKeyLess(e, Head(s))
         THEN <<e>> \o s
         ELSE <<Head(s)>> \o StoreInsert(e, Tail(s))

\* SortStore putting a row before the rows of equal key that precede it
RECURSIVE SortStoreTiesReversed(_)
SortStoreTiesReversed(df) ==
    LET RECURSIVE InsertFirst(_, _)
        InsertFirst(e, s) ==
            IF s = <<>> THEN <<e>>
            ELSE IF ~StoreKeyLess(Head(s), e)
                 THEN <<e>> \o s
                 ELSE <<Head(s)>> \o InsertFirst(e, Tail(s))
    IN  IF df = <<>> THEN <<>>
        ELSE InsertFirst(Last(df), SortStoreTiesReversed(SubSeq(df, 1, Len(df) - 1)))

\* df.sort_values(['game_code', 'total_seconds', 'score_home', 'score_away'])
RECURSIVE SortStore(_)
SortStore(df) ==
    IF df = <<>> THEN <<>>
    ELSE StoreInsert(Last(df), SortStore(SubSeq(df, 1, Len(df) - 1)))

\* groupby('game_code')[column].shift(1).fillna(0): the previous row of the
\* same game, or 0 for the first row of a game
PrevScore(df, k, home) ==
    IF k > 1 /\ df[k - 1].game_code = df[k].game_code
    THEN IF home THEN df[k - 1].score_home ELSE df[k - 1].score_away
    ELSE 0

\* (score - prev).clip(lower=0)
ClipLower0(x) == IF x < 0 THEN 0 ELSE x

\* the points column of row k of the sorted frame
Points(df, k) ==
    ClipLower0(df[k].score_home - PrevScore(df, k, TRUE))
    + ClipLower0(df[k].score_away - PrevScore(df, k, FALSE))

\* enrich_pbp_dataframe(df): the sorted frame with gap and points
Enrich(df) ==
    LET sorted == SortStore(df)
    IN  [k \in 1..Len(sorted) |->
            [game_code |-> sorted[k].game_code,
             total_seconds |-> sorted[k].total_seconds,
             score_home |-> sorted[k].score_home,
             score_away |-> sorted[k].score_away,
             gap |-> Gap(sorted[k]),
             points |-> Points(sorted, k)]]

\* enrich_pbp_dataframe(pbp_df): the whole call
EnrichPbpDataframe ==
    /\ pc = "ready"
    /\ pc' = "done"
    /\ enriched' = Enrich(pbp_df)
    /\ UNCHANGED <<pbp_df, game_df, comeback_data, blown_lead_data,
                   run_df, scan_trace, runs_data>>
    /\ UNCHANGED pipeVars
    /\ UNCHANGED reportVars
    /\ UNCHANGED <<quarterVars, competitionVars, scrapeVars>>

(* ------------------------------ inputs -------------------------------- *)

\* the rows a frame may hold (one game)
Events ==
    {e \in [game_code : {1}, total_seconds : 1..MaxTime,
            score_home : 0..MaxTotal, score_away : 0..MaxTotal] :
        e.score_home + e.score_away <= MaxTotal}

\* order of a stored frame: enrich_pbp_dataframe leaves the store sorted by
\* (game_code, total_seconds, score_home, score_away)
StoreKeyLeq(a, b) ==
    \/ a.game_code < b.game_code
    \/ /\ a.game_code = b.game_code
       /\ \/ a.total_seconds < b.total_seconds
          \/ /\ a.total_seconds = b.total_seconds
             /\ \/ a.score_home < b.score_home
                \/ /\ a.score_home = b.score_home
                   /\ a.score_away <= b.score_away

\* the stored frames of at most n rows
RECURSIVE StoredFrames(_)
StoredFrames(n) ==
    IF n = 0 THEN {<<>>}
    ELSE LET P == StoredFrames(n - 1)
             Longest == {p \in P : Len(p) = n - 1}
         IN  P \cup {Append(x[1], x[2]) :
                       x \in {y \in Longest \X Events :
                                y[1] = <<>> \/ StoreKeyLeq(Last(y[1]), y[2])}}

\* a well-formed game of at most n scoring plays: every row adds 1..MaxPoints
\* points to exactly one side, one play per time unit
RECURSIVE CleanGames(_)
CleanGames(n) ==
    IF n = 0 THEN {<<>>}
    ELSE LET P == CleanGames(n - 1)
             Longest == {p \in P : Len(p) = n - 1}
             NextRow(p, side, pts) ==
                 LET h == IF p = <<>> THEN 0 ELSE Last(p).score_home
                     a == IF p = <<>> THEN 0 ELSE Last(p).score_away
                 IN  [game_code |-> 1, total_seconds |-> n,
                      score_home |-> IF side = "home" THEN h + pts ELSE h,
                      score_away |-> IF side = "away" THEN a + pts ELSE a]
         IN  P \cup {Append(x[1], NextRow(x[1], x[2], x[3])) :
                       x \in Longest \X {"home", "away"} \X (1..MaxPoints)}

InitComeback ==
    /\ pc = "ready"
    /\ pbp_df \in StoredFrames(MaxEvents) \cup CleanGames(MaxPlays)
    /\ game_df = <<>>
    /\ comeback_data = <<>>
    /\ blown_lead_data = <<>>
    /\ run_df = <<>>
    /\ scan_trace = <<>>
    /\ runs_data = <<>>
    /\ enriched = <<>>
    /\ PipeIdle
    /\ ReportIdle
    /\ QuarterIdle
    /\ CompetitionIdle
    /\ ScrapeIdle

NextComeback == ComputeComebackStats

SpecComeback == InitComeback /\ [][NextComeback]_vars

\* score movements of one row of a noisy game: a clean play, a row without a
\* score change, a row in which both scores rise (a missed event) and a row
\* in which one score drops (a corrected or corrupt score)
NoisyDeltas ==
    {<<d, 0>> : d \in 0..MaxPoints} \cup {<<0, d>> : d \in 1..MaxPoints}
    \cup {<<1, 1>>, <<-1, 0>>, <<0, -1>>}

\* the score of row k of the game whose rows move the score by ds[1], ds[2], ...
RECURSIVE ScoreAfter(_, _)
ScoreAfter(ds, k) ==
    IF k = 0 THEN <<0, 0>>
    ELSE <<ScoreAfter(ds, k - 1)[1] + ds[k][1], ScoreAfter(ds, k - 1)[2] + ds[k][2]>>

\* the game as the page lists it: one row per time unit, row k moving the
\* score by ds[k]
NoisyGame(ds) ==
    [k \in 1..Len(ds) |->
        [game_code |-> 1, total_seconds |-> k,
         score_home |-> ScoreAfter(ds, k)[1],
         score_away |-> ScoreAfter(ds, k)[2]]]

\* rows of a frame whose events share timestamps
MaxTied == 2

\* the run detector reads stored frames: rows sharing a timestamp, and games
\* of at most MaxPlays rows that repeat, skip or take back a score, no score
\* below 0
InitRuns ==
    /\ pc = "ready"
    /\ \/ pbp_df \in StoredFrames(MaxTied)
       \/ \E n \in 1..MaxPlays : \E ds \in [1..n -> NoisyDeltas] :
             /\ \A k \in 1..n : ScoreAfter(ds, k)[1] >= 0 /\ ScoreAfter(ds, k)[2] >= 0
             /\ pbp_df = NoisyGame(ds)
    /\ game_df = <<>>
    /\ comeback_data = <<>>
    /\ blown_lead_data = <<>>
    /\ run_df = <<>>
    /\ scan_trace = <<>>
    /\ runs_data = <<>>
    /\ enriched = <<>>
    /\ PipeIdle
    /\ ReportIdle
    /\ QuarterIdle
    /\ CompetitionIdle
    /\ ScrapeIdle

NextRuns == ComputeScoringRuns

SpecRuns == InitRuns /\ [][NextRuns]_vars

\* rows in reverse order
Reverse(s) == [i \in 1..Len(s) |-> s[Len(s) + 1 - i]]

\* the frames handed to enrich_pbp_dataframe: scraped rows in page order,
\* oldest first or newest first
InitEnrich ==
    /\ pc = "ready"
    /\ \E f \in StoredFrames(MaxEvents) \cup CleanGames(MaxPlays) :
          pbp_df \in {f, Reverse(f)}
    /\ game_df = <<>>
    /\ comeback_data = <<>>
    /\ blown_lead_data = <<>>
    /\ run_df = <<>>
    /\ scan_trace = <<>>
    /\ runs_data = <<>>
    /\ enriched = <<>>
    /\ PipeIdle
    /\ ReportIdle
    /\ QuarterIdle
    /\ CompetitionIdle
    /\ ScrapeIdle

NextEnrich == EnrichPbpDataframe

SpecEnrich == InitEnrich /\ [][NextEnrich]_vars

(* ------------------- read_play_by_play: one page ---------------------- *)

\* a text that int() converts, with its value, and a text it does not convert
Digits(n) == [isdigit |-> TRUE, int |-> n]

Junk == [isdigit |-> FALSE, int |-> 0]

\* the time column: '' or the "mm:ss" the clock text holds
NoTime == [empty |-> TRUE, mm |-> 0, ss |-> 0]

Clock(mm, ss) == [empty |-> FALSE, mm |-> mm, ss |-> ss]

\* 'Fine' in action_type
HasFine(action_type) == action_type \in {"Fine quarto"}

\* the rows read_play_by_play appends for one event of the page: none when the
\* time or score element is missing, when int() raises on a score part or when
\* the event is an empty 'Fine' event
ReadEvent(ev) ==
    IF ~ev.has_score_elems THEN <<>>
    ELSE LET quarter == IF ev.quarter_match.isdigit THEN ev.quarter_match ELSE ev.q
             game_time == ev.time_match
             score_parts == ev.score_parts
         IN  IF Len(score_parts) = 2
                /\ (~score_parts[1].isdigit \/ ~score_parts[2].isdigit)
             THEN <<>>
             ELSE IF ev.player = "" /\ HasFine(ev.action_type) THEN <<>>
             ELSE <<[quarter |-> IF quarter.isdigit THEN quarter.int ELSE 0,
                     time |-> game_time,
                     score_home |-> IF Len(score_parts) = 2 THEN score_parts[1].int ELSE 0,
                     score_away |-> IF Len(score_parts) = 2 THEN score_parts[2].int ELSE 0,
                     player |-> ev.player,
                     action_type |-> ev.action_type]>>

\* read_play_by_play(soup): the rows of the events of the page, in page order
RECURSIVE read_play_by_play(_)
read_play_by_play(events) ==
    IF events = <<>> THEN <<>>
    ELSE ReadEvent(Head(events)) \o read_play_by_play(Tail(events))

\* scrape_single_game: the play-by-play rows with the game's metadata
WithGameCode(events, game_code) ==
    [k \in 1..Len(events) |->
        [game_code |-> game_code,
         quarter |-> events[k].quarter,
         time |-> events[k].time,
         score_home |-> events[k].score_home,
         score_away |-> events[k].score_away,
         player |-> events[k].player,
         action_type |-> events[k].action_type]]

\* scrape_single_game(..., extract_pbp=True) on the page of game 1
ScrapeSingleGame ==
    /\ pc = "page"
    /\ pc' = "read"
    /\ pbp_events' = WithGameCode(read_play_by_play(page), 1)
    /\ UNCHANGED <<page, store, loaded, clutch_stats, closers, responsibility>>
    /\ UNCHANGED analysisVars
    /\ UNCHANGED reportVars
    /\ UNCHANGED <<quarterVars, competitionVars, scrapeVars>>

(* ------------------- enrich_pbp_dataframe: the whole frame ------------ *)

\* time_to_seconds(t): 0 for '', else minutes * 60 + seconds
time_to_seconds(t) == IF t.empty THEN 0 ELSE t.mm * 60 + t.ss

\* the time_seconds column without the end-of-quarter rule
TimeSecondsKeepingZero(t) == time_to_seconds(t)

\* the time_seconds column: time_to_seconds, with 0 stored as 600
TimeSeconds(t) == IF time_to_seconds(t) = 0 THEN 600 ELSE time_to_seconds(t)

\* the clutch column enrich_pbp_dataframe writes
StoreClutch(quarter, time_seconds, gap) ==
    quarter >= 4 /\ time_seconds >= 480 /\ Abs(gap) <= 5

\* the rows with time_seconds, total_seconds and gap
WithTimes(df) ==
    [k \in 1..Len(df) |->
        [game_code |-> df[k].game_code,
         quarter |-> df[k].quarter,
         time |-> df[k].time,
         score_home |-> df[k].score_home,
         score_away |-> df[k].score_away,
         player |-> df[k].player,
         action_type |-> df[k].action_type,
         time_seconds |-> TimeSeconds(df[k].time),
         total_seconds |-> (df[k].quarter - 1) * 600 + TimeSeconds(df[k].time),
         gap |-> df[k].score_home - df[k].score_away]]

\* enrich_pbp_dataframe(df): the derived columns, the rows sorted by
\* (game_code, total_seconds, score_home, score_away)
enrich_pbp_dataframe(df) ==
    LET sorted == SortStore(WithTimes(df))
    IN  [k \in 1..Len(sorted) |->
            [game_code |-> sorted[k].game_code,
             quarter |-> sorted[k].quarter,
             time |-> sorted[k].time,
             score_home |-> sorted[k].score_home,
             score_away |-> sorted[k].score_away,
             player |-> sorted[k].player,
             action_type |-> sorted[k].action_type,
             time_seconds |-> sorted[k].time_seconds,
             total_seconds |-> sorted[k].total_seconds,
             gap |-> sorted[k].gap,
             points |-> Points(sorted, k),
             clutch |-> StoreClutch(sorted[k].quarter, sorted[k].time_seconds,
                                    sorted[k].gap)]]

(* ------------------- scrape_campionato: saving the events ------------- *)

\* the columns drop_duplicates compares
DuplicateKey(e) == <<e.game_code, e.quarter, e.time, e.player, e.action_type>>

\* drop_duplicates(subset=[...], keep='last')
DropDuplicates(df) ==
    LET kept(i) == \A j \in (i + 1)..Len(df) : DuplicateKey(df[j]) # DuplicateKey(df[i])
        RECURSIVE Keep(_)
        Keep(i) == IF i > Len(df) THEN <<>>
                   ELSE (IF kept(i) THEN <<df[i]>> ELSE <<>>) \o Keep(i + 1)
    IN  Keep(1)

\* scrape_campionato, a full run with include_pbp: the new events, without
\* duplicates and enriched, become the store; no events, nothing is written
ScrapeCampionato ==
    /\ pc = "read"
    /\ pc' = "stored"
    /\ store' = IF pbp_events = <<>> THEN store
                ELSE enrich_pbp_dataframe(DropDuplicates(pbp_events))
    /\ UNCHANGED <<page, pbp_events, loaded, clutch_stats, closers, responsibility>>
    /\ UNCHANGED analysisVars
    /\ UNCHANGED reportVars
    /\ UNCHANGED <<quarterVars, competitionVars, scrapeVars>>

(* ------------------- load_pbp_data ------------------------------------ *)

\* the clutch column with a window open only above 8:00
LoadedClutchAfterEight(quarter, time_seconds, gap) ==
    quarter = 4 /\ time_seconds > 480 /\ Abs(gap) <= 5

\* the clutch column fix_pbp_time_format writes
LoadedClutch(quarter, time_seconds, gap) ==
    quarter = 4 /\ time_seconds >= 480 /\ Abs(gap) <= 5

\* fix_pbp_time_format(df): time_seconds, total_seconds and clutch recomputed
fix_pbp_time_format(df) ==
    [k \in 1..Len(df) |->
        LET time_seconds == IF df[k].time_seconds = 0 THEN 600 ELSE df[k].time_seconds
        IN  [game_code |-> df[k].game_code,
             quarter |-> df[k].quarter,
             time |-> df[k].time,
             score_home |-> df[k].score_home,
             score_away |-> df[k].score_away,
             player |-> df[k].player,
             action_type |-> df[k].action_type,
             time_seconds |-> time_seconds,
             total_seconds |-> (df[k].quarter - 1) * 600 + time_seconds,
             gap |-> df[k].gap,
             points |-> df[k].points,
             clutch |-> LoadedClutch(df[k].quarter, time_seconds, df[k].gap)]]

\* load_pbp_data(campionato): the store of the competition, fixed
LoadPbpData ==
    /\ pc = "stored"
    /\ pc' = "loaded"
    /\ loaded' = fix_pbp_time_format(store)
    /\ UNCHANGED <<page, pbp_events, store, clutch_stats, closers, responsibility>>
    /\ UNCHANGED analysisVars
    /\ UNCHANGED reportVars
    /\ UNCHANGED <<quarterVars, competitionVars, scrapeVars>>

(* ------------------- the pages -------------------------------------- *)

\* a page holds at most MaxPage events
MaxPage == 2

\* where the quarter of an event comes from: "Q4" or "Q5" in the clock text,
\* or no "Qn" there and the q attribute, a number or not
QuarterTexts ==
    {[quarter_match |-> Digits(4), q |-> Digits(4)],
     [quarter_match |-> Digits(5), q |-> Digits(5)],
     [quarter_match |-> Junk, q |-> Digits(3)],
     [quarter_match |-> Junk, q |-> Junk]}

\* the clock of an event: none, 00:00, 07:59, 08:00
ClockTexts == {NoTime, Clock(0, 0), Clock(7, 59), Clock(8, 0)}

\* the score text split at '-': "5-0", "0-6", "59" and "a-b"
ScoreTexts == {<<Digits(5), Digits(0)>>, <<Digits(0), Digits(6)>>,
               <<Digits(59)>>, <<Junk, Junk>>}

\* the events of a page: plays of a player, the end-of-quarter marker and an
\* event without score element
PageEvents ==
    {[has_score_elems |-> TRUE, quarter_match |-> qt.quarter_match, q |-> qt.q,
      time_match |-> t, score_parts |-> sc,
      player |-> "Rossi", action_type |-> "Tiro realizzato"] :
        qt \in QuarterTexts, t \in ClockTexts, sc \in ScoreTexts}
    \cup {[has_score_elems |-> TRUE, quarter_match |-> Digits(4), q |-> Digits(4),
           time_match |-> Clock(0, 0), score_parts |-> <<Digits(5), Digits(0)>>,
           player |-> "", action_type |-> "Fine quarto"],
          [has_score_elems |-> FALSE, quarter_match |-> Digits(4), q |-> Digits(4),
           time_match |-> Clock(8, 0), score_parts |-> <<Digits(5), Digits(0)>>,
           player |-> "Rossi", action_type |-> "Tiro realizzato"]}

InitPipeline ==
    /\ pc = "page"
    /\ \E n \in 0..MaxPage : page \in [1..n -> PageEvents]
    /\ pbp_events = <<>>
    /\ store = <<>>
    /\ loaded = <<>>
    /\ clutch_stats = <<>>
    /\ closers = <<>>
    /\ responsibility = <<>>
    /\ AnalysisIdle
    /\ ReportIdle
    /\ QuarterIdle
    /\ CompetitionIdle
    /\ ScrapeIdle

NextPipeline == ScrapeSingleGame \/ ScrapeCampionato \/ LoadPbpData

SpecPipeline == InitPipeline /\ [][NextPipeline]_vars

(* ------------------- the incremental merge ---------------------------- *)

\* the events of the pages of the merge: quarter 4 from the clock text or
\* quarter 3 from the q attribute, no clock, 00:00 or 08:00, score 5-0 or 0-6
MergePageEvents ==
    {[has_score_elems |-> TRUE, quarter_match |-> qt.quarter_match, q |-> qt.q,
      time_match |-> t, score_parts |-> sc,
      player |-> "Rossi", action_type |-> "Tiro realizzato"] :
        qt \in {[quarter_match |-> Digits(4), q |-> Digits(4)],
                [quarter_match |-> Junk, q |-> Digits(3)]},
        t \in {NoTime, Clock(0, 0), Clock(8, 0)},
        sc \in {<<Digits(5), Digits(0)>>, <<Digits(0), Digits(6)>>}}

\* scrape_campionato, an incremental run with include_pbp that fetches the new
\* game 2: its events are appended to the existing store, duplicates dropped
\* and the whole frame enriched again; no new events, nothing is written
ScrapeCampionatoIncremental ==
    /\ pc = "stored"
    /\ pc' = "merged"
    /\ \E new_page \in [1..1 -> MergePageEvents] :
          LET new_pbp_df == WithGameCode(read_play_by_play(new_page), 2)
          IN  store' = IF new_pbp_df = <<>> THEN store
                       ELSE enrich_pbp_dataframe(DropDuplicates(store \o new_pbp_df))
    /\ UNCHANGED <<page, pbp_events, loaded, clutch_stats, closers, responsibility>>
    /\ UNCHANGED <<analysisVars, reportVars, quarterVars, competitionVars, scrapeVars>>

\* fix_pbp_time_format applied to the frame load_pbp_data returned
FixPbpTimeFormat ==
    /\ pc = "loaded"
    /\ pc' = "fixed"
    /\ loaded' = fix_pbp_time_format(loaded)
    /\ UNCHANGED <<page, pbp_events, store, clutch_stats, closers, responsibility>>
    /\ UNCHANGED <<analysisVars, reportVars, quarterVars, competitionVars, scrapeVars>>

InitMerge ==
    /\ pc = "page"
    /\ \E n \in 0..MaxPage : page \in [1..n -> MergePageEvents]
    /\ pbp_events = <<>>
    /\ store = <<>>
    /\ loaded = <<>>
    /\ clutch_stats = <<>>
    /\ closers = <<>>
    /\ responsibility = <<>>
    /\ AnalysisIdle
    /\ ReportIdle
    /\ QuarterIdle
    /\ CompetitionIdle
    /\ ScrapeIdle

NextMerge ==
    \/ ScrapeSingleGame
    \/ ScrapeCampionato
    \/ ScrapeCampionatoIncremental
    \/ LoadPbpData
    \/ FixPbpTimeFormat

SpecMerge == InitMerge /\ [][NextMerge]_vars

(* ------------------- compute_clutch_stats ----------------------------- *)

\* the min_clutch_games argument of compute_closer_rankings, scaled
min_clutch_games == 2
\* the min_games argument of compute_clutch_responsibility, scaled
min_games == 2

\* player.notna() and player != ''
ValidPlayer(e) == e.player # ""

\* is_field_goal_attempt: 'tiro' in the action and 'libero' not in it
is_field_goal_attempt(action) ==
    action \in {"Tiro realizzato da 2 punti", "Tiro sbagliato da 2 punti",
                "Tiro realizzato da 3 punti", "Tiro sbagliato da 3 punti"}

\* is_field_goal_made: 'tiro realizzato' or 'tiro segnato', and no 'libero'
is_field_goal_made(action) ==
    action \in {"Tiro realizzato da 2 punti", "Tiro realizzato da 3 punti"}

\* is_free_throw_attempt: 'tiro libero' in the action
is_free_throw_attempt(action) ==
    action \in {"Tiro libero segnato", "Tiro libero sbagliato"}

\* sum of the points column
RECURSIVE SumPoints(_)
SumPoints(df) == IF df = <<>> THEN 0 ELSE Head(df).points + SumPoints(Tail(df))

\* the clutch events with a valid player
ClutchDf(df) == SelectSeq(df, LAMBDA e : e.clutch /\ ValidPlayer(e))

\* total_points of a player taken from the events outside clutch time only
TotalPointsOutsideClutch(df, player) ==
    SumPoints(SelectSeq(df, LAMBDA e : e.points > 0 /\ ValidPlayer(e)
                                        /\ e.player = player /\ ~e.clutch))

\* valid_scoring.groupby('player')['points'].sum() for one player, 0 when the
\* player has no scoring event
TotalPoints(df, player) ==
    SumPoints(SelectSeq(df, LAMBDA e : e.points > 0 /\ ValidPlayer(e)
                                        /\ e.player = player))

\* the line of the group (player, team) of the clutch events; clutch_pct in
\* tenths of a percent, clutch_ppg in hundredths of a point
ClutchLine(df, player, team) ==
    LET group == SelectSeq(ClutchDf(df), LAMBDA e : e.player = player /\ e.team = team)
        clutch_points == SumPoints(group)
        clutch_games == Cardinality({group[k].game_code : k \in 1..Len(group)})
        fg_attempts == Len(SelectSeq(group, LAMBDA e : is_field_goal_attempt(e.action_type)))
        ft_attempts == Len(SelectSeq(group, LAMBDA e : is_free_throw_attempt(e.action_type)))
        total_points == TotalPoints(df, player)
    IN  [player |-> player,
         team |-> team,
         clutch_points |-> clutch_points,
         clutch_games |-> clutch_games,
         fg_attempts |-> fg_attempts,
         fg_made |-> Len(SelectSeq(group, LAMBDA e : is_field_goal_made(e.action_type))),
         ft_attempts |-> ft_attempts,
         total_points |-> total_points,
         clutch_pct |-> IF total_points > 0
                        THEN RoundHalfEven(clutch_points * 1000, total_points)
                        ELSE 0,
         clutch_ppg |-> RoundHalfEven(clutch_points * 100, clutch_games),
         total_shots |-> fg_attempts + ft_attempts]

\* the lines of compute_clutch_stats(df): one per (player, team) of the clutch
\* events; none for an empty frame or a frame without clutch events
ClutchLines(df) ==
    {ClutchLine(df, e.player, e.team) : e \in {ClutchDf(df)[k] : k \in 1..Len(ClutchDf(df))}}

\* compute_clutch_stats(pbp_df): the tables it may return
compute_clutch_stats(df) ==
    DescendingOrders(ClutchLines(df), "clutch_points")

\* a line of compute_closer_rankings: closer_score in tenths
CloserLine(l) ==
    [player |-> l.player, team |-> l.team,
     clutch_points |-> l.clutch_points, clutch_games |-> l.clutch_games,
     total_points |-> l.total_points, clutch_pct |-> l.clutch_pct,
     clutch_ppg |-> l.clutch_ppg, total_shots |-> l.total_shots,
     closer_score |-> RoundHalfEven(l.clutch_points * 700
                                    + l.clutch_ppg * l.clutch_games * 3, 100)]

\* compute_closer_rankings without the minimum of clutch games
CloserRankingsUnfiltered(df) ==
    DescendingOrders({CloserLine(l) : l \in ClutchLines(df)},
                     "closer_score")

\* compute_closer_rankings(pbp_df): the tables it may return
compute_closer_rankings(df) ==
    DescendingOrders({CloserLine(l) :
                        l \in {m \in ClutchLines(df) : m.clutch_games >= min_clutch_games}},
                     "closer_score")

\* a line of compute_clutch_responsibility: shots_per_game in hundredths,
\* ts_pct in tenths of a percent
ResponsibilityLine(l) ==
    [player |-> l.player, team |-> l.team,
     clutch_points |-> l.clutch_points, clutch_games |-> l.clutch_games,
     total_points |-> l.total_points, clutch_pct |-> l.clutch_pct,
     clutch_ppg |-> l.clutch_ppg, total_shots |-> l.total_shots,
     shots_per_game |-> RoundHalfEven(l.total_shots * 100, l.clutch_games),
     ts_pct |-> IF 100 * l.fg_attempts + 44 * l.ft_attempts > 0
                THEN RoundHalfEven(l.clutch_points * 100000,
                                   2 * (100 * l.fg_attempts + 44 * l.ft_attempts))
                ELSE 0]

\* compute_clutch_responsibility(pbp_df): the tables it may return
compute_clutch_responsibility(df) ==
    DescendingOrders({ResponsibilityLine(l) :
                        l \in {m \in ClutchLines(df) : m.clutch_games >= min_games}},
                     "total_shots")

\* compute_clutch_stats(loaded)
ComputeClutchStats ==
    /\ pc = "loaded"
    /\ pc' = "stats"
    /\ clutch_stats' \in compute_clutch_stats(loaded)
    /\ UNCHANGED <<page, pbp_events, store, loaded, closers, responsibility>>
    /\ UNCHANGED analysisVars
    /\ UNCHANGED reportVars
    /\ UNCHANGED <<quarterVars, competitionVars, scrapeVars>>

\* compute_closer_rankings(loaded)
ComputeCloserRankings ==
    /\ pc = "stats"
    /\ pc' = "closers"
    /\ closers' \in compute_closer_rankings(loaded)
    /\ UNCHANGED <<page, pbp_events, store, loaded, clutch_stats, responsibility>>
    /\ UNCHANGED analysisVars
    /\ UNCHANGED reportVars
    /\ UNCHANGED <<quarterVars, competitionVars, scrapeVars>>

\* compute_clutch_responsibility(loaded)
ComputeClutchResponsibility ==
    /\ pc = "closers"
    /\ pc' = "ranked"
    /\ responsibility' \in compute_clutch_responsibility(loaded)
    /\ UNCHANGED <<page, pbp_events, store, loaded, clutch_stats, closers>>
    /\ UNCHANGED analysisVars
    /\ UNCHANGED reportVars
    /\ UNCHANGED <<quarterVars, competitionVars, scrapeVars>>

\* events of a loaded frame
MaxClutchEvents == 3
\* games of a loaded frame
MaxClutchGames == 2

\* the rows of a loaded frame, with the columns the clutch tables read: plays
\* of one player name for either team, in or out of clutch time, and a clutch
\* basket without player
ClutchRows ==
    {[game_code |-> g, player |-> "Rossi", team |-> t, clutch |-> c,
      action_type |-> play[1], points |-> play[2]] :
        g \in 1..MaxClutchGames, t \in {"A", "B"}, c \in BOOLEAN,
        play \in {<<"Tiro realizzato da 2 punti", 2>>, <<"Rimbalzo difensivo", 0>>}}
    \cup {[game_code |-> g, player |-> "", team |-> "A", clutch |-> TRUE,
           action_type |-> "Tiro realizzato da 2 punti", points |-> 2] :
            g \in 1..MaxClutchGames}

\* the loaded frames: the store is sorted by game_code
InitClutch ==
    /\ pc = "loaded"
    /\ \E n \in 0..MaxClutchEvents :
          /\ loaded \in [1..n -> ClutchRows]
          /\ \A i \in 1..(n - 1) : loaded[i].game_code <= loaded[i + 1].game_code
    /\ page = <<>>
    /\ pbp_events = <<>>
    /\ store = <<>>
    /\ clutch_stats = <<>>
    /\ closers = <<>>
    /\ responsibility = <<>>
    /\ AnalysisIdle
    /\ ReportIdle
    /\ QuarterIdle
    /\ CompetitionIdle
    /\ ScrapeIdle

NextClutch == ComputeClutchStats \/ ComputeCloserRankings \/ ComputeClutchResponsibility

SpecClutch == InitClutch /\ [][NextClutch]_vars

(* ------------------- generate_partite_andamento: comebacks ------------ *)

\* value.empty can be read: a DataFrame has the attribute, a tuple has not
HasEmptyAttribute(value) == "frame" \in DOMAIN value

\* the comeback section of generate_partite_andamento, entered for a pbp_df
\* that is not empty: comebacks = compute_comeback_stats(...), then
\* `if not comebacks.empty`
GeneratePartiteAndamento ==
    /\ pc = "done"
    /\ pbp_df # <<>>
    /\ returned # <<>>
    /\ pc' = "reported"
    /\ raised' = IF HasEmptyAttribute(returned) THEN "" ELSE "AttributeError"
    /\ UNCHANGED <<team_runs, comebacks, returned>>
    /\ UNCHANGED <<analysisVars, pipeVars, quarterVars, competitionVars, scrapeVars>>

NextReport == ComputeComebackStats \/ GeneratePartiteAndamento

SpecReport == InitComeback /\ [][NextReport]_vars

(* ------------------- a competition of two games ----------------------- *)

\* rows of a game of the competition
MaxSeasonRows == 4

\* the score movements of a game: every row a basket of MaxPoints points by
\* one side, or no row with a score (a game that was not parsed: 0-0 throughout)
SeasonScripts(n) ==
    {ds \in [1..n -> {<<MaxPoints, 0>>, <<0, MaxPoints>>, <<0, 0>>}] :
        \/ \A k \in 1..n : ds[k] = <<0, 0>>
        \/ \A k \in 1..n : ds[k] # <<0, 0>>}

\* the stored rows of game g: row k moves the score by ds[k]; one row per time
\* unit, the last two rows sharing their timestamp when `tied`
SeasonGame(g, ds, tied) ==
    [k \in 1..Len(ds) |->
        [game_code |-> g,
         total_seconds |-> IF tied /\ k = Len(ds) THEN k - 1 ELSE k,
         score_home |-> ScoreAfter(ds, k)[1],
         score_away |-> ScoreAfter(ds, k)[2]]]

\* the frame of a competition: games 1 and 2, in the order of the store
InitSeason ==
    /\ pc = "ready"
    /\ \E n1, n2 \in 1..MaxSeasonRows :
          \E ds1 \in SeasonScripts(n1), ds2 \in SeasonScripts(n2) :
             \E tied1 \in {t \in BOOLEAN : t => n1 > 1},
                tied2 \in {t \in BOOLEAN : t => n2 > 1} :
                pbp_df = SeasonGame(1, ds1, tied1) \o SeasonGame(2, ds2, tied2)
    /\ game_df = <<>>
    /\ comeback_data = <<>>
    /\ blown_lead_data = <<>>
    /\ run_df = <<>>
    /\ scan_trace = <<>>
    /\ runs_data = <<>>
    /\ enriched = <<>>
    /\ PipeIdle
    /\ ReportIdle
    /\ QuarterIdle
    /\ CompetitionIdle
    /\ ScrapeIdle

NextSeason == ComputeScoringRuns \/ ComputeComebackStats

SpecSeason == InitSeason /\ [][NextSeason]_vars

(* ------------------- load_pbp_data('b_combined') ---------------------- *)

\* the events scrape_single_game reads from the page of game g: row k is a
\* basket at second k of the first quarter and moves the score by ds[k]
BasketEvents(g, ds) ==
    WithGameCode([k \in 1..Len(ds) |->
                     [quarter |-> 1,
                      time |-> Clock(0, k),
                      score_home |-> ScoreAfter(ds, k)[1],
                      score_away |-> ScoreAfter(ds, k)[2],
                      player |-> "Rossi",
                      action_type |-> "Tiro realizzato"]], g)

\* the store scrape_campionato writes for a competition with the one game g
CompetitionStore(g, ds) == enrich_pbp_dataframe(DropDuplicates(BasketEvents(g, ds)))

\* load_pbp_data of one store: the pickle, fixed (normalize_team_names renames
\* teams and leaves the rows alone)
load_pbp_data(dfs) == fix_pbp_time_format(dfs)

\* load_pbp_data('b_combined'): pd.concat of the stores of the two groups,
\* then fix_pbp_time_format
LoadPbpDataCombined ==
    /\ pc = "stored"
    /\ pc' = "ready"
    /\ pbp_df' = load_pbp_data(pbp_b_a \o pbp_b_b)
    /\ UNCHANGED <<game_df, comeback_data, blown_lead_data, run_df, scan_trace,
                   runs_data, enriched>>
    /\ UNCHANGED <<pipeVars, reportVars, quarterVars, competitionVars, scrapeVars>>

\* the stores of the two groups: the codes of each competition start at
\* start_code = 1, so group A holds game 1 and group B game 1 or game 2
InitCombined ==
    /\ pc = "stored"
    /\ \E n1, n2 \in 1..MaxSeasonRows :
          \E ds1 \in [1..n1 -> {<<MaxPoints, 0>>, <<0, MaxPoints>>}],
             ds2 \in [1..n2 -> {<<MaxPoints, 0>>, <<0, MaxPoints>>}] :
             \E g \in {1, 2} :
                /\ pbp_b_a = CompetitionStore(1, ds1)
                /\ pbp_b_b = CompetitionStore(g, ds2)
    /\ AnalysisIdle
    /\ PipeIdle
    /\ ReportIdle
    /\ QuarterIdle
    /\ ScrapeIdle

NextCombined == LoadPbpDataCombined \/ ComputeScoringRuns \/ ComputeComebackStats

SpecCombined == InitCombined /\ [][NextCombined]_vars

(* ------------------- compute_quarter_distribution --------------------- *)

\* games of a quarters frame
MaxQuarterGames == 3

\* home_quarters.get(key, 0)
DictGet(d, key) == IF key \in DOMAIN d THEN d[key] ELSE 0

\* the two rows the loop appends for one game record: home team, away team
ExpandGame(game) ==
    <<[team |-> game.home_team,
       q1 |-> DictGet(game.home, "q1"), q2 |-> DictGet(game.home, "q2"),
       q3 |-> DictGet(game.home, "q3"), q4 |-> DictGet(game.home, "q4"),
       game_code |-> game.game_code],
      [team |-> game.away_team,
       q1 |-> DictGet(game.away, "q1"), q2 |-> DictGet(game.away, "q2"),
       q3 |-> DictGet(game.away, "q3"), q4 |-> DictGet(game.away, "q4"),
       game_code |-> game.game_code]>>

\* rows after the loop over quarters_df.iterrows()
RECURSIVE ExpandGames(_)
ExpandGames(df) ==
    IF df = <<>> THEN <<>> ELSE ExpandGame(Head(df)) \o ExpandGames(Tail(df))

quarter_cols == <<"q1_avg", "q2_avg", "q3_avg", "q4_avg">>

quarter_names == <<"Q1", "Q2", "Q3", "Q4">>

\* idxmax looking at the first three quarters only
IdxmaxOfFirstThree(line) ==
    LET i == CHOOSE i \in 1..3 :
                /\ \A j \in 1..3 : line[quarter_cols[j]] <= line[quarter_cols[i]]
                /\ \A j \in 1..(i - 1) : line[quarter_cols[j]] < line[quarter_cols[i]]
    IN  quarter_names[i]

\* team_quarters[quarter_cols].idxmax(axis=1), mapped to the quarter's name:
\* the first column that holds the maximum
idxmax(line) ==
    LET i == CHOOSE i \in 1..4 :
                /\ \A j \in 1..4 : line[quarter_cols[j]] <= line[quarter_cols[i]]
                /\ \A j \in 1..(i - 1) : line[quarter_cols[j]] < line[quarter_cols[i]]
    IN  quarter_names[i]

\* idxmin(axis=1): the first column that holds the minimum
idxmin(line) ==
    LET i == CHOOSE i \in 1..4 :
                /\ \A j \in 1..4 : line[quarter_cols[j]] >= line[quarter_cols[i]]
                /\ \A j \in 1..(i - 1) : line[quarter_cols[j]] > line[quarter_cols[i]]
    IN  quarter_names[i]

\* the line of a team: the means of its rows rounded to one decimal (in
\* tenths), the best and worst quarter and the Q4 - Q1 trend
TeamQuarterLine(rows, team) ==
    LET group == SelectSeq(rows, LAMBDA r : r.team = team)
        avgs == [q1_avg |-> ColumnMeanTenths(group, "q1"),
                 q2_avg |-> ColumnMeanTenths(group, "q2"),
                 q3_avg |-> ColumnMeanTenths(group, "q3"),
                 q4_avg |-> ColumnMeanTenths(group, "q4")]
    IN  [team |-> team,
         q1_avg |-> avgs.q1_avg, q2_avg |-> avgs.q2_avg,
         q3_avg |-> avgs.q3_avg, q4_avg |-> avgs.q4_avg,
         games |-> Len(group),
         best_quarter |-> idxmax(avgs),
         worst_quarter |-> idxmin(avgs),
         q4_vs_q1 |-> avgs.q4_avg - avgs.q1_avg]

\* compute_quarter_distribution(quarters_df): the tables it may return, sorted
\* by q4_avg, descending; an empty frame for an empty input
compute_quarter_distribution(df) ==
    LET rows == ExpandGames(df)
    IN  DescendingOrders({TeamQuarterLine(rows, t) :
                            t \in {rows[k].team : k \in 1..Len(rows)}}, "q4_avg")

\* compute_quarter_distribution(quarters_df): the whole call
ComputeQuarterDistribution ==
    /\ pc = "ready"
    /\ pc' = "done"
    /\ games_df' = ExpandGames(quarters_df)
    /\ team_quarters' \in compute_quarter_distribution(quarters_df)
    /\ UNCHANGED quarters_df
    /\ UNCHANGED <<analysisVars, pipeVars, reportVars, competitionVars, scrapeVars>>

\* the per-quarter points read_quarter_scores leaves for one team: a strong
\* start, a strong finish, and a dict without q4 (a cell that is missing or
\* not a number) in which two quarters tie for the best
QuarterDicts ==
    {[q1 |-> 2, q2 |-> 1, q3 |-> 1, q4 |-> 1],
     [q1 |-> 0, q2 |-> 1, q3 |-> 1, q4 |-> 2],
     [q1 |-> 1, q2 |-> 1, q3 |-> 0]}

\* the quarters frames: one record per game, games 1, 2, ...
InitQuarters ==
    /\ pc = "ready"
    /\ \E n \in 0..MaxQuarterGames : \E h, a \in [1..n -> QuarterDicts] :
          quarters_df = [g \in 1..n |->
                            [game_code |-> g,
                             home_team |-> HomeTeamOf(g), away_team |-> AwayTeamOf(g),
                             home |-> h[g], away |-> a[g]]]
    /\ games_df = <<>>
    /\ team_quarters = <<>>
    /\ AnalysisIdle
    /\ PipeIdle
    /\ ReportIdle
    /\ CompetitionIdle
    /\ ScrapeIdle

NextQuarters == ComputeQuarterDistribution

SpecQuarters == InitQuarters /\ [][NextQuarters]_vars

(* ------------------- scrape_campionato: the loop over the codes ------- *)

\* config['start_code'] of every competition
start_code == 1

\* pages beyond max_empty consecutive empty ones are not fetched
max_empty == 5

\* codes the site may hold a game for; the pages beyond are empty
MaxCode == 2

\* runs of scrape_campionato
MaxRuns == 2

\* what scrape_single_game finds at a page: nothing (None), a game whose
\* play-by-play list is empty, a game with play-by-play events
PageKinds == {"empty", "game", "game_pbp"}

\* the page of a code
PageOf(pages, c) == IF c \in DOMAIN pages THEN pages[c] ELSE "empty"

\* load_existing_data / load_existing_pbp / load_existing_quarters, called
\* only when `wanted`: the codes of the file, or None (no code)
load_existing(wanted, file) == IF wanted THEN file ELSE {}

\* get_scraped_games(existing_df)
get_scraped_games(existing_df) == existing_df

\* ConcatStores leaving a store that exists as it is
ConcatStoresKeepingExisting(existing, new) == IF existing = {} THEN new ELSE existing

\* pd.concat([existing, new]) followed by drop_duplicates, as game codes
ConcatStores(existing, new) == existing \cup new

\* the two exit conditions at the top of the loop, leaving after max_empty + 1
ExitConditionAfterSix(end, c, streak) ==
    IF end # <<>> THEN c > end[1] ELSE streak > max_empty

\* the two exit conditions at the top of the loop
ExitCondition(end, c, streak) ==
    IF end # <<>> THEN c > end[1] ELSE streak >= max_empty

\* what the loop did at a code
Visit(c, outcome) == [code |-> c, outcome |-> outcome]

\* scrape_campionato up to the loop: the arguments, the existing data
ScrapeLoopStart ==
    /\ pc = "idle"
    /\ runs_done < MaxRuns
    /\ pc' = "loop"
    /\ \E inc \in BOOLEAN, pbp \in BOOLEAN :
          /\ incremental' = inc
          /\ include_pbp' = pbp
          /\ scraped_codes' = get_scraped_games(load_existing(inc, stats_file))
    /\ new_games' = {}
    /\ new_pbp_events' = {}
    /\ new_quarters_list' = {}
    /\ empty_streak' = 0
    /\ code' = start_code
    /\ visited' = <<>>
    /\ UNCHANGED <<site, end_code, stats_file, pbp_file, quarters_file, runs_done>>
    /\ UNCHANGED <<analysisVars, pipeVars, reportVars, quarterVars, competitionVars>>

\* the loop is left: past end_code, or after max_empty empty pages in a row
ScrapeLoopBreak ==
    /\ pc = "loop"
    /\ ExitCondition(end_code, code, empty_streak)
    /\ pc' = "save"
    /\ UNCHANGED scrapeVars
    /\ UNCHANGED <<analysisVars, pipeVars, reportVars, quarterVars, competitionVars>>

\* a code already in the statistics store is skipped (incremental mode)
ScrapeLoopSkip ==
    /\ pc = "loop"
    /\ ~ExitCondition(end_code, code, empty_streak)
    /\ incremental /\ code \in scraped_codes
    /\ empty_streak' = 0
    /\ code' = code + 1
    /\ visited' = Append(visited, Visit(code, "skip"))
    /\ UNCHANGED <<pc, site, end_code, incremental, include_pbp, stats_file, pbp_file,
                   quarters_file, scraped_codes, new_games, new_pbp_events,
                   new_quarters_list, runs_done>>
    /\ UNCHANGED <<analysisVars, pipeVars, reportVars, quarterVars, competitionVars>>

\* the page of the code is fetched: a game resets the streak, an empty page
\* extends it
ScrapeLoopFetch ==
    /\ pc = "loop"
    /\ ~ExitCondition(end_code, code, empty_streak)
    /\ ~(incremental /\ code \in scraped_codes)
    /\ LET found == PageOf(site, code)
       IN  /\ new_games' = IF found = "empty" THEN new_games ELSE new_games \cup {code}
           /\ new_pbp_events' = IF include_pbp /\ found = "game_pbp"
                                THEN new_pbp_events \cup {code} ELSE new_pbp_events
           /\ new_quarters_list' = IF include_pbp /\ found # "empty"
                                   THEN new_quarters_list \cup {code}
                                   ELSE new_quarters_list
           /\ empty_streak' = IF found = "empty" THEN empty_streak + 1 ELSE 0
           /\ visited' = Append(visited,
                                Visit(code, IF found = "empty" THEN "empty" ELSE "game"))
    /\ code' = code + 1
    /\ UNCHANGED <<pc, site, end_code, incremental, include_pbp, stats_file, pbp_file,
                   quarters_file, scraped_codes, runs_done>>
    /\ UNCHANGED <<analysisVars, pipeVars, reportVars, quarterVars, competitionVars>>

\* after the loop: with new games the statistics are written, and with
\* include_pbp and new events the play-by-play and the quarters too
ScrapeLoopSave ==
    /\ pc = "save"
    /\ pc' = "idle"
    /\ runs_done' = runs_done + 1
    /\ stats_file' = IF new_games # {}
                     THEN ConcatStores(load_existing(incremental, stats_file), new_games)
                     ELSE stats_file
    /\ pbp_file' = IF new_games # {} /\ include_pbp /\ new_pbp_events # {}
                   THEN ConcatStores(load_existing(incremental /\ include_pbp, pbp_file),
                                     new_pbp_events)
                   ELSE pbp_file
    /\ quarters_file' = IF new_games # {} /\ include_pbp /\ new_pbp_events # {}
                        THEN ConcatStores(load_existing(incremental /\ include_pbp,
                                                        quarters_file),
                                          new_quarters_list)
                        ELSE quarters_file
    /\ UNCHANGED <<site, end_code, incremental, include_pbp, scraped_codes, code,
                   empty_streak, new_games, new_pbp_events, new_quarters_list, visited>>
    /\ UNCHANGED <<analysisVars, pipeVars, reportVars, quarterVars, competitionVars>>

\* between two runs a game is played: its page is no longer empty
GamePlayed ==
    /\ pc = "idle"
    /\ 0 < runs_done /\ runs_done < MaxRuns
    /\ \E c \in DOMAIN site, kind \in PageKinds \ {"empty"} :
          /\ site[c] = "empty"
          /\ site' = [site EXCEPT ![c] = kind]
    /\ UNCHANGED <<pc, end_code, incremental, include_pbp, stats_file, pbp_file,
                   quarters_file, scraped_codes, code, empty_streak, new_games,
                   new_pbp_events, new_quarters_list, visited, runs_done>>
    /\ UNCHANGED <<analysisVars, pipeVars, reportVars, quarterVars, competitionVars>>

\* the site and the configured end_code before the first run
InitScrape ==
    /\ pc = "idle"
    /\ site \in [1..MaxCode -> PageKinds]
    /\ end_code \in {<<>>} \cup {<<n>> : n \in 1..MaxCode}
    /\ incremental = FALSE
    /\ include_pbp = FALSE
    /\ stats_file = {}
    /\ pbp_file = {}
    /\ quarters_file = {}
    /\ scraped_codes = {}
    /\ code = 0
    /\ empty_streak = 0
    /\ new_games = {}
    /\ new_pbp_events = {}
    /\ new_quarters_list = {}
    /\ visited = <<>>
    /\ runs_done = 0
    /\ AnalysisIdle
    /\ PipeIdle
    /\ ReportIdle
    /\ QuarterIdle
    /\ CompetitionIdle

\* one step of the loop
ScrapeLoopStep == ScrapeLoopBreak \/ ScrapeLoopSkip \/ ScrapeLoopFetch

NextScrape ==
    \/ ScrapeLoopStart
    \/ ScrapeLoopBreak
    \/ ScrapeLoopSkip
    \/ ScrapeLoopFetch
    \/ ScrapeLoopSave
    \/ GamePlayed

SpecScrape == InitScrape /\ [][NextScrape]_vars

\* the running loop goes on to its next step
SpecScrapeFair == SpecScrape /\ WF_vars(ScrapeLoopStep)

(* ================= properties of compute_comeback_stats =============== *)

\* the gap of a row from a side's point of view (positive: the side leads)
SideGap(side, e) == IF side = "home" THEN Gap(e) ELSE -Gap(e)

\* how far the side trails at a row (negative when it leads)
SideDeficit(side, e) == -SideGap(side, e)

\* the side a record's team plays on in its game
SideOf(r) == IF r.team = HomeTeamOf(r.game_code) THEN "home" ELSE "away"

\* the team name of a side in a game
TeamOfSide(g, side) == IF side = "home" THEN HomeTeamOf(g) ELSE AwayTeamOf(g)

\* the retained rows of a record's game
RowsOfRecord(r) == game_df[r.game_code]

ComebackRecords == {comeback_data[i] : i \in DOMAIN comeback_data}

BlownLeadRecords == {blown_lead_data[i] : i \in DOMAIN blown_lead_data}

\* maximum of a non-empty set of integers
MaxOf(S) == CHOOSE x \in S : \A y \in S : y <= x

\* blown-lead record b mirrors comeback record c
Mirrors(b, c) ==
    /\ b.game_code = c.game_code
    /\ b.team = c.opponent
    /\ b.opponent = c.team
    /\ b.max_lead = c.deficit
    /\ b.lost = c.won
    /\ b.worst_after = -c.best_after

\* the first retained row at which the record's deficit occurs
DeficitRow(r) ==
    LET df == RowsOfRecord(r)
    IN  CHOOSE k \in 1..Len(df) :
            /\ SideDeficit(SideOf(r), df[k]) = r.deficit
            /\ \A i \in 1..(k - 1) : SideDeficit(SideOf(r), df[i]) # r.deficit

\* C1: every comeback record has exactly one mirrored blown-lead record of
\* the same game (team and opponent swapped, max_lead = deficit, lost = won,
\* worst_after = -best_after), and every blown-lead record mirrors a comeback
\* record.
ComebackSymmetry ==
    /\ \A i \in DOMAIN comeback_data :
          Cardinality({j \in DOMAIN blown_lead_data :
                          Mirrors(blown_lead_data[j], comeback_data[i])}) = 1
    /\ \A j \in DOMAIN blown_lead_data :
          \E i \in DOMAIN comeback_data :
              Mirrors(blown_lead_data[j], comeback_data[i])

\* C1 witness: an away-team comeback that ended in an away win was recorded
\* together with its blown lead.
ComebackSymmetryWitness ==
    /\ pc = "done"
    /\ \E c \in ComebackRecords :
          /\ SideOf(c) = "away"
          /\ c.won
          /\ ~HomeWon(RowsOfRecord(c))
          /\ Last(RowsOfRecord(c)).score_away > Last(RowsOfRecord(c)).score_home
    /\ blown_lead_data # <<>>

\* the side trailed by at least min_deficit at some retained row and a later
\* retained row is within comeback_threshold of even or in the side's favour
QualifyingComeback(df, side) ==
    \E i \in 1..Len(df) : \E j \in (i + 1)..Len(df) :
        /\ SideDeficit(side, df[i]) >= min_deficit
        /\ SideGap(side, df[j]) >= -comeback_threshold

\* C2: a comeback record is emitted for a team of a game if and only if the
\* team trailed by at least min_deficit (exactly min_deficit included) at some
\* event and a later event is within comeback_threshold or in its favour.
ComebackIffQualifyingDeficit ==
    pc = "done" =>
        \A g \in DOMAIN game_df : \A side \in {"home", "away"} :
            (\E c \in ComebackRecords :
                c.game_code = g /\ c.team = TeamOfSide(g, side))
            <=> QualifyingComeback(game_df[g], side)

\* C3 (as claimed): the stored deficit is the deepest deficit of the team
\* over all retained events of the game.
DeficitIsDeepestOfGame ==
    \A c \in ComebackRecords :
        c.deficit = MaxOf({SideDeficit(SideOf(c), RowsOfRecord(c)[i]) :
                              i \in 1..Len(RowsOfRecord(c))})

\* C3 (amended): the stored deficit occurs at a retained event, a later event
\* is within comeback_threshold, and the stored deficit is the deepest deficit
\* over the events that precede the first such later event.
DeficitIsDeepestBeforeRecovery ==
    \A c \in ComebackRecords :
        LET df == RowsOfRecord(c)
            side == SideOf(c)
        IN  \E k \in 1..Len(df) : \E j \in (k + 1)..Len(df) :
                /\ SideDeficit(side, df[k]) = c.deficit
                /\ SideGap(side, df[j]) >= -comeback_threshold
                /\ \A m \in (k + 1)..(j - 1) :
                      SideGap(side, df[m]) < -comeback_threshold
                /\ \A i \in 1..(j - 1) : SideDeficit(side, df[i]) <= c.deficit

\* C3 witness: a team with a comeback record trailed by more than the stored
\* deficit at a later retained event.
DeeperDeficitAfterRecoveryWitness ==
    /\ pc = "done"
    /\ \E c \in ComebackRecords :
          \E i \in 1..Len(RowsOfRecord(c)) :
              /\ i > DeficitRow(c)
              /\ SideDeficit(SideOf(c), RowsOfRecord(c)[i]) > c.deficit

\* C4: best_after is the most favourable gap among the events strictly after
\* the event of the recorded maximum deficit.
BestAfterStrictlyAfterDeficit ==
    \A c \in ComebackRecords :
        LET df == RowsOfRecord(c)
        IN  c.best_after = MaxOf({SideGap(SideOf(c), df[m]) :
                                     m \in (DeficitRow(c) + 1)..Len(df)})

\* C5: won is true exactly when the team's final score is strictly greater
\* than the opponent's, for either side, and lost of a blown lead exactly when
\* the team that held the lead finished strictly behind.
WonIffFinalScoreGreater ==
    /\ \A c \in ComebackRecords :
          c.won <=> SideGap(SideOf(c), Last(RowsOfRecord(c))) > 0
    /\ \A b \in BlownLeadRecords :
          b.lost <=> SideGap(SideOf(b), Last(RowsOfRecord(b))) < 0

\* C6: at most one comeback record per team and game.
AtMostOneComebackPerTeam ==
    \A i \in DOMAIN comeback_data : \A j \in DOMAIN comeback_data :
        (/\ comeback_data[i].game_code = comeback_data[j].game_code
         /\ comeback_data[i].team = comeback_data[j].team) => i = j

\* C6 witness: a team fell behind by more than min_deficit and recovered, then
\* did so a second time, and one record was emitted for it.
TwoRecoveriesWitness ==
    /\ pc = "done"
    /\ \E c \in ComebackRecords :
          LET df == RowsOfRecord(c)
              side == SideOf(c)
          IN  \E i1, j1, i2, j2 \in 1..Len(df) :
                  /\ i1 < j1 /\ j1 < i2 /\ i2 < j2
                  /\ SideDeficit(side, df[i1]) > min_deficit
                  /\ SideGap(side, df[j1]) >= -comeback_threshold
                  /\ SideDeficit(side, df[i2]) > min_deficit
                  /\ SideGap(side, df[j2]) >= -comeback_threshold

\* C7 (as claimed): the retained score_home and score_away sequences of every
\* game are non-decreasing.
RetainedScoresNonDecreasing ==
    \A g \in DOMAIN game_df :
        \A i \in 1..(Len(game_df[g]) - 1) :
            /\ game_df[g][i].score_home <= game_df[g][i + 1].score_home
            /\ game_df[g][i].score_away <= game_df[g][i + 1].score_away

\* C7 (amended): from one retained event to the next, neither score drops by
\* more than one point.
RetainedScoresWithinTolerance ==
    \A g \in DOMAIN game_df :
        \A i \in 1..(Len(game_df[g]) - 1) :
            /\ game_df[g][i + 1].score_home >= game_df[g][i].score_home - 1
            /\ game_df[g][i + 1].score_away >= game_df[g][i].score_away - 1

\* C7 witness: the filter dropped a row of a game and kept a one-point drop.
ToleratedDropWitness ==
    /\ pc = "done"
    /\ \E g \in DOMAIN game_df :
          /\ Len(game_df[g]) < Len(RowsOfGame(pbp_df, g))
          /\ \E i \in 1..(Len(game_df[g]) - 1) :
                game_df[g][i + 1].score_home = game_df[g][i].score_home - 1

(* ================== properties of compute_scoring_runs ================ *)

\* the scan state before row k of game g
ScanBefore(g, k) == IF k = 1 THEN ScanStart ELSE scan_trace[g][k - 1]

\* row k of game g has a score below the running score
RegressingRow(g, k) ==
    \/ run_df[g][k].score_home < ScanBefore(g, k).prev_home
    \/ run_df[g][k].score_away < ScanBefore(g, k).prev_away

\* the score of the last row among the first k that was not regressing, or
\* 0-0 when there is none
LastValidScore(g, k) ==
    LET J == {j \in 1..k : ~RegressingRow(g, j)}
    IN  IF J = {} THEN [score_home |-> 0, score_away |-> 0]
        ELSE [score_home |-> run_df[g][MaxOf(J)].score_home,
              score_away |-> run_df[g][MaxOf(J)].score_away]

\* C8: a row whose home or away score is below the running score changes
\* neither the running score nor score_changes; the running score is the
\* score of the last row that was not skipped this way, and a later row that
\* raises one side only is attributed the difference to it.
RegressingRowsSkipped ==
    \A g \in DOMAIN scan_trace : \A k \in 1..Len(run_df[g]) :
        LET before == ScanBefore(g, k)
            after == scan_trace[g][k]
            row == run_df[g][k]
            base == LastValidScore(g, k - 1)
        IN  /\ before.prev_home = base.score_home
            /\ before.prev_away = base.score_away
            /\ RegressingRow(g, k) => after = before
            /\ (row.score_home > base.score_home /\ row.score_away = base.score_away)
                  => after.score_changes =
                        Append(before.score_changes,
                               <<"home", row.score_home - base.score_home>>)
            /\ (row.score_away > base.score_away /\ row.score_home = base.score_home)
                  => after.score_changes =
                        Append(before.score_changes,
                               <<"away", row.score_away - base.score_away>>)

\* C8 witness: a regressing row was skipped and the next row was attributed
\* home points counted from the score before the regressing row.
RegressionThenAttributionWitness ==
    /\ pc = "done"
    /\ \E g \in DOMAIN scan_trace : \E k \in 2..(Len(run_df[g]) - 1) :
          /\ RegressingRow(g, k)
          /\ run_df[g][k].score_home < run_df[g][k - 1].score_home
          /\ ~RegressingRow(g, k + 1)
          /\ scan_trace[g][k + 1].score_changes =
                Append(scan_trace[g][k].score_changes,
                       <<"home", run_df[g][k + 1].score_home
                                 - run_df[g][k - 1].score_home>>)

\* sum of the points of a sequence of score changes
RECURSIVE ChangesSum(_)
ChangesSum(changes) ==
    IF changes = <<>> THEN 0 ELSE Head(changes)[2] + ChangesSum(Tail(changes))

\* sum of run_points over the run records of game g
RECURSIVE RunPointsSum(_, _)
RunPointsSum(runs, g) ==
    IF runs = <<>> THEN 0
    ELSE (IF Head(runs).game_code = g THEN Head(runs).run_points ELSE 0)
         + RunPointsSum(Tail(runs), g)

\* C10: a row in which both scores rise above the running score adds nothing
\* to score_changes (so to no run: the runs of a game hold no more points
\* than its score_changes), and the running score advances to that row.
BothSidesScoreUnattributed ==
    \A g \in DOMAIN scan_trace :
        /\ \A k \in 1..Len(run_df[g]) :
              LET before == ScanBefore(g, k)
                  after == scan_trace[g][k]
                  row == run_df[g][k]
              IN  (row.score_home > before.prev_home /\ row.score_away > before.prev_away)
                     => /\ after.score_changes = before.score_changes
                        /\ after.prev_home = row.score_home
                        /\ after.prev_away = row.score_away
        /\ RunPointsSum(runs_data, g) <= ChangesSum(ScoreChanges(run_df[g]))

\* C10 witness: both scores rose in one row, and the next row was attributed
\* counting from that row's score.
BothSidesThenAttributionWitness ==
    /\ pc = "done"
    /\ \E g \in DOMAIN scan_trace : \E k \in 1..(Len(run_df[g]) - 1) :
          /\ run_df[g][k].score_home > ScanBefore(g, k).prev_home
          /\ run_df[g][k].score_away > ScanBefore(g, k).prev_away
          /\ scan_trace[g][k + 1].score_changes =
                Append(scan_trace[g][k].score_changes,
                       <<"away", run_df[g][k + 1].score_away - run_df[g][k].score_away>>)

\* score_changes of game g at the end of the scan
FinalChanges(g) ==
    IF Len(run_df[g]) = 0 THEN <<>>
    ELSE scan_trace[g][Len(run_df[g])].score_changes

\* the streaks of score_changes ch: the intervals <<i, j>> of consecutive
\* changes by one side that no neighbouring change by that side extends
Streaks(ch) ==
    {b \in (1..Len(ch)) \X (1..Len(ch)) :
        /\ b[1] <= b[2]
        /\ \A k \in b[1]..b[2] : ch[k][1] = ch[b[1]][1]
        /\ b[1] = 1 \/ ch[b[1] - 1][1] # ch[b[1]][1]
        /\ b[2] = Len(ch) \/ ch[b[2] + 1][1] # ch[b[1]][1]}

\* points of the streak b of ch
StreakPoints(ch, b) == ChangesSum(SubSeq(ch, b[1], b[2]))

\* the streaks of ch that reach min_run
SignificantStreaks(ch) == {b \in Streaks(ch) : StreakPoints(ch, b) >= min_run}

\* the run records of game g within runs_data, in order
RunsOf(g) == SelectSeq(runs_data, LAMBDA r : r.game_code = g)

\* C11: the runs emitted for a game are, in order, its streaks of score
\* changes by one side (closed by a change of side or by the end of the
\* stream) whose points reach min_run, each with the streak's side and
\* points: every emitted run has at least min_run points and a streak below
\* min_run emits nothing.
RunsAreSignificantStreaks ==
    \A g \in DOMAIN scan_trace :
        LET ch == FinalChanges(g)
            S == SignificantStreaks(ch)
        IN  /\ Len(RunsOf(g)) = Cardinality(S)
            /\ \A b \in S :
                  LET r == RunsOf(g)[1 + Cardinality({c \in S : c[1] < b[1]})]
                      side == IF ch[b[1]][1] = "home" THEN HomeTeamOf(g) ELSE AwayTeamOf(g)
                  IN  /\ r.team = side
                      /\ r.opponent = (IF side = HomeTeamOf(g) THEN AwayTeamOf(g) ELSE HomeTeamOf(g))
                      /\ r.run_points = StreakPoints(ch, b)
            /\ \A k \in 1..Len(RunsOf(g)) : RunsOf(g)[k].run_points >= min_run

\* C11 witness: the home side scored exactly min_run points over three
\* events, then the away side scored, and exactly one run (home, min_run
\* points) was emitted.
RunClosedBySideChangeWitness ==
    /\ pc = "done"
    /\ 1 \in DOMAIN scan_trace
    /\ Len(FinalChanges(1)) = 4
    /\ \A k \in 1..3 : FinalChanges(1)[k][1] = "home"
    /\ FinalChanges(1)[4][1] = "away"
    /\ runs_data = <<[team |-> HomeTeamOf(1), opponent |-> AwayTeamOf(1),
                      run_points |-> min_run, game_code |-> 1]>>

\* the row of game g at which score_changes reached length n
RowOfChange(g, n) ==
    CHOOSE k \in 1..Len(run_df[g]) :
        /\ Len(scan_trace[g][k].score_changes) = n
        /\ Len(ScanBefore(g, k).score_changes) = n - 1

\* the score of team t in row e of game g
ScoreOf(e, g, t) == IF t = HomeTeamOf(g) THEN e.score_home ELSE e.score_away

\* the highest value in a non-empty set of integers, 0 for the empty set
MaxOr0(S) == IF S = {} THEN 0 ELSE MaxOf(S)

\* sum of run_points over the run records of team t in game g
RECURSIVE TeamRunPoints(_, _, _)
TeamRunPoints(runs, g, t) ==
    IF runs = <<>> THEN 0
    ELSE (IF Head(runs).game_code = g /\ Head(runs).team = t
          THEN Head(runs).run_points ELSE 0)
         + TeamRunPoints(Tail(runs), g, t)

\* C12 as stated: the run points of a team in a game sum to at most the
\* team's final score, the score of the last row of the game.
RunPointsWithinFinalScore ==
    \A g \in DOMAIN run_df : \A t \in {HomeTeamOf(g), AwayTeamOf(g)} :
        Len(RowsOfGame(pbp_df, g)) > 0 =>
            TeamRunPoints(runs_data, g, t) <= ScoreOf(Last(RowsOfGame(pbp_df, g)), g, t)

\* C12 amended: the run points of a team in a game sum to at most the
\* highest score the team has in any row of the game.
RunPointsWithinHighestScore ==
    \A g \in DOMAIN run_df : \A t \in {HomeTeamOf(g), AwayTeamOf(g)} :
        TeamRunPoints(runs_data, g, t)
            <= MaxOr0({ScoreOf(run_df[g][k], g, t) : k \in 1..Len(run_df[g])})

\* C12 witness: a run was emitted for the home side and the last row of the
\* game shows a home score below the points of that run.
RunAboveFinalScoreWitness ==
    /\ pc = "done"
    /\ Len(runs_data) = 1
    /\ runs_data[1].team = HomeTeamOf(1)
    /\ Last(pbp_df).score_home < runs_data[1].run_points

\* C13: between the first and the last scoring event of an emitted run the
\* score of the opponent does not rise.
RunsAreUnanswered ==
    \A g \in DOMAIN scan_trace :
        \A b \in SignificantStreaks(FinalChanges(g)) :
            LET first == run_df[g][RowOfChange(g, b[1])]
                last == run_df[g][RowOfChange(g, b[2])]
                opp == IF FinalChanges(g)[b[1]][1] = "home"
                       THEN AwayTeamOf(g) ELSE HomeTeamOf(g)
            IN  ScoreOf(last, g, opp) <= ScoreOf(first, g, opp)

(* ================== properties of enrich_pbp_dataframe ================ *)

\* the running score of game g after the first k rows of df: the score of the
\* last row of the game that did not regress below the running score
RECURSIVE RunningBaseline(_, _, _)
RunningBaseline(df, k, g) ==
    IF k = 0 THEN [score_home |-> 0, score_away |-> 0]
    ELSE LET b == RunningBaseline(df, k - 1, g)
         IN  IF df[k].game_code # g THEN b
             ELSE IF df[k].score_home < b.score_home \/ df[k].score_away < b.score_away
                  THEN b
                  ELSE [score_home |-> df[k].score_home, score_away |-> df[k].score_away]

\* C9: the points of every row equal max(0, score_home - prev_home) +
\* max(0, score_away - prev_away), where (prev_home, prev_away) is the running
\* score of the last non-regressing row of the same game.
PointsFromLastValidScore ==
    \A k \in 1..Len(enriched) :
        LET b == RunningBaseline(enriched, k - 1, enriched[k].game_code)
        IN  enriched[k].points =
                ClipLower0(enriched[k].score_home - b.score_home)
                + ClipLower0(enriched[k].score_away - b.score_away)

(* ============ properties of the scrape / load pipeline ================ *)

\* the rows of a frame
RowsOf(df) == {df[k] : k \in 1..Len(df)}

\* C14: every event load_pbp_data returns is flagged clutch exactly when
\* quarter >= 4, time_seconds >= 480 and |gap| <= 5, overtime included.
LoadedClutchIsWindow ==
    \A e \in RowsOf(loaded) :
        e.clutch <=> (e.quarter >= 4 /\ e.time_seconds >= 480 /\ Abs(e.gap) <= 5)

\* C15: a quarter-4 event with time_seconds = 480 and |gap| = 5 is flagged
\* clutch; a quarter-4 event with time_seconds = 479, or with |gap| = 6, is
\* not: in the store and in the loaded frame.
ClutchBoundariesInclusive ==
    \A e \in RowsOf(store) \cup RowsOf(loaded) :
        e.quarter = 4 =>
            /\ (e.time_seconds = 480 /\ Abs(e.gap) = 5) => e.clutch
            /\ (e.time_seconds = 479 \/ Abs(e.gap) = 6) => ~e.clutch

\* C15 witness: the loaded frame holds a quarter-4 event at 480 seconds with a
\* gap of 5 flagged clutch, and a quarter-4 event at 479 seconds not flagged.
ClutchBoundaryWitness ==
    /\ pc = "loaded"
    /\ \E e \in RowsOf(loaded) :
          e.quarter = 4 /\ e.time_seconds = 480 /\ Abs(e.gap) = 5 /\ e.clutch
    /\ \E e \in RowsOf(loaded) :
          e.quarter = 4 /\ e.time_seconds = 479 /\ Abs(e.gap) = 5 /\ ~e.clutch

\* C16: no stored or loaded event has time_seconds = 0; a clock that parses
\* to 0 is stored as 600 and any other parsed value is kept; total_seconds is
\* (quarter - 1) * 600 + time_seconds.
TimeNormalized ==
    \A e \in RowsOf(store) \cup RowsOf(loaded) :
        /\ e.time_seconds # 0
        /\ ~e.time.empty =>
              e.time_seconds = (IF e.time.mm * 60 + e.time.ss = 0 THEN 600
                                ELSE e.time.mm * 60 + e.time.ss)
        /\ e.total_seconds = (e.quarter - 1) * 600 + e.time_seconds

\* C16 witness: a quarter-4 event with clock 00:00 is stored with
\* time_seconds 600 and total_seconds 2400.
EndOfQuarterClockWitness ==
    /\ pc = "stored"
    /\ \E e \in RowsOf(store) :
          /\ e.quarter = 4
          /\ e.time = Clock(0, 0)
          /\ e.time_seconds = 600
          /\ e.total_seconds = 2400

\* an event of the page whose score text is a pair of numbers and whose clock
\* text holds a time
WellFormed(ev) ==
    /\ ev.has_score_elems
    /\ Len(ev.score_parts) = 2
    /\ ev.score_parts[1].isdigit
    /\ ev.score_parts[2].isdigit
    /\ ~ev.time_match.empty

\* C17: a raw event whose score text is not a pair of numbers, or whose clock
\* cannot be parsed, is dropped: every row read or stored carries the time and
\* the score of a well-formed event of the page.
MalformedEventsDropped ==
    \A e \in RowsOf(pbp_events) \cup RowsOf(store) :
        \E i \in 1..Len(page) :
            /\ WellFormed(page[i])
            /\ e.time = page[i].time_match
            /\ e.score_home = page[i].score_parts[1].int
            /\ e.score_away = page[i].score_parts[2].int

\* C18: a raw event whose quarter the clock text does not give is dropped: every
\* stored row has the quarter of the clock text of an event of the page, a
\* quarter of at least 1, and no negative total_seconds.
UnrecoveredQuartersDropped ==
    \A e \in RowsOf(store) :
        /\ e.quarter >= 1
        /\ e.total_seconds >= 0
        /\ \E i \in 1..Len(page) :
              page[i].quarter_match.isdigit /\ page[i].quarter_match.int = e.quarter

(* ================= properties of the clutch tables ==================== *)

\* the (player, team) pairs with a clutch event of a named player
ClutchPairs == {<<e.player, e.team>> : e \in {r \in RowsOf(loaded) : r.clutch /\ r.player # ""}}

\* the games in which (player, team) has a clutch event
ClutchGamesOf(player, team) ==
    {e.game_code : e \in {r \in RowsOf(loaded) :
                            r.clutch /\ r.player = player /\ r.team = team}}

\* C19: every row of the ranked views has clutch_games at least the configured
\* minimum, and once computed the raw table holds exactly one line for every
\* (player, team) with a clutch event and a non-empty player, whatever its
\* clutch_games.
RankedViewsFilteredRawTableComplete ==
    /\ \A l \in RowsOf(closers) : l.clutch_games >= min_clutch_games
    /\ \A l \in RowsOf(responsibility) : l.clutch_games >= min_games
    /\ pc \in {"stats", "closers", "ranked"} =>
          /\ {<<l.player, l.team>> : l \in RowsOf(clutch_stats)} = ClutchPairs
          /\ Len(clutch_stats) = Cardinality(ClutchPairs)
          /\ \A l \in RowsOf(clutch_stats) :
                l.clutch_games = Cardinality(ClutchGamesOf(l.player, l.team))
    /\ pc \in {"closers", "ranked"} =>
          \A l \in RowsOf(clutch_stats) :
              l.clutch_games >= min_clutch_games
                  => \E c \in RowsOf(closers) : c.player = l.player /\ c.team = l.team
    /\ pc = "ranked" =>
          \A l \in RowsOf(clutch_stats) :
              l.clutch_games >= min_games
                  => \E c \in RowsOf(responsibility) : c.player = l.player /\ c.team = l.team

\* C19 witness: the raw table holds a line below the minimum of clutch games
\* that both ranked views leave out, next to a line that both rank.
BelowMinimumKeptInRawWitness ==
    /\ pc = "ranked"
    /\ \E l \in RowsOf(clutch_stats) :
          /\ l.clutch_games < min_games
          /\ l.clutch_games < min_clutch_games
          /\ \A c \in RowsOf(closers) \cup RowsOf(responsibility) :
                <<c.player, c.team>> # <<l.player, l.team>>
    /\ Len(closers) = 1
    /\ Len(responsibility) = 1

\* the season points of a player name: the points of every scoring event of
\* the loaded frame with that player, for any team
SeasonPoints(player) ==
    LET Idx == {k \in 1..Len(loaded) : loaded[k].player = player /\ loaded[k].points > 0}
        RECURSIVE Sum(_)
        Sum(S) == IF S = {} THEN 0
                  ELSE LET k == CHOOSE x \in S : TRUE
                       IN  loaded[k].points + Sum(S \ {k})
    IN  Sum(Idx)

\* the clutch points of (player, team): the points of its clutch events
ClutchPointsOf(player, team) ==
    LET Idx == {k \in 1..Len(loaded) :
                  loaded[k].clutch /\ loaded[k].player = player /\ loaded[k].team = team}
        RECURSIVE Sum(_)
        Sum(S) == IF S = {} THEN 0
                  ELSE LET k == CHOOSE x \in S : TRUE
                       IN  loaded[k].points + Sum(S \ {k})
    IN  Sum(Idx)

\* C20: for every clutch line, clutch_pct (in tenths of a percent) is
\* clutch_points over the season points of the line's player rounded to one
\* decimal, 0 when the season points are 0; clutch_points is at most the
\* season points, so clutch_pct lies in 0..100, also when the player name
\* occurs for two teams.
ClutchPctIsShareOfSeasonPoints ==
    \A l \in RowsOf(clutch_stats) :
        /\ l.clutch_points = ClutchPointsOf(l.player, l.team)
        /\ l.total_points = SeasonPoints(l.player)
        /\ l.clutch_points <= l.total_points
        /\ l.total_points = 0 => l.clutch_pct = 0
        /\ l.total_points > 0 =>
              /\ 2 * Abs(l.clutch_pct * l.total_points - 1000 * l.clutch_points)
                    <= l.total_points
        /\ l.clutch_pct >= 0
        /\ l.clutch_pct <= 1000

\* C20 witness: one player name has clutch lines for two teams, one with a
\* share strictly between 0 and 100, and a line with no season points at all
\* has share 0.
TwoTeamsShareWitness ==
    /\ pc = "stats"
    /\ \E l, m \in RowsOf(clutch_stats) :
          /\ l.player = m.player
          /\ l.team # m.team
          /\ l.clutch_pct > 0
          /\ l.clutch_pct < 1000
          /\ m.total_points > 0

\* a clutch line without season points has share 0
ZeroSeasonPointsWitness ==
    /\ pc = "stats"
    /\ \E l \in RowsOf(clutch_stats) : l.total_points = 0 /\ l.clutch_pct = 0

(* ================ properties of compute_quarter_distribution ========== *)

\* the value of a line's column for a quarter name
QuarterAvg(line, name) ==
    line[quarter_cols[CHOOSE i \in 1..4 : quarter_names[i] = name]]

\* C21: compute_quarter_distribution expands every game record into exactly
\* one row for its home team and one for its away team, and on every line of
\* the table best_quarter names a quarter whose mean (the q*_avg column) is
\* at least the mean of each quarter, worst_quarter one whose mean is at most
\* each of them, and q4_vs_q1 is the Q4 mean minus the Q1 mean.
QuarterDistributionContract ==
    pc = "done" =>
        /\ Len(games_df) = 2 * Len(quarters_df)
        /\ \A g \in 1..Len(quarters_df) :
              /\ Cardinality({k \in 1..Len(games_df) :
                                /\ games_df[k].game_code = quarters_df[g].game_code
                                /\ games_df[k].team = quarters_df[g].home_team}) = 1
              /\ Cardinality({k \in 1..Len(games_df) :
                                /\ games_df[k].game_code = quarters_df[g].game_code
                                /\ games_df[k].team = quarters_df[g].away_team}) = 1
        /\ \A i \in 1..Len(team_quarters) :
              LET line == team_quarters[i]
              IN  /\ line.best_quarter \in {"Q1", "Q2", "Q3", "Q4"}
                  /\ line.worst_quarter \in {"Q1", "Q2", "Q3", "Q4"}
                  /\ \A j \in 1..4 :
                        /\ QuarterAvg(line, line.best_quarter) >= line[quarter_cols[j]]
                        /\ QuarterAvg(line, line.worst_quarter) <= line[quarter_cols[j]]
                  /\ line.q4_vs_q1 = line.q4_avg - line.q1_avg

\* three games are expanded and a team's best quarter is the fourth, its
\* means not whole numbers
BestQuarterIsFourthWitness ==
    /\ pc = "done"
    /\ Len(quarters_df) = 3
    /\ Len(games_df) = 6
    /\ \E i \in 1..Len(team_quarters) :
          /\ team_quarters[i].best_quarter = "Q4"
          /\ team_quarters[i].worst_quarter = "Q1"
          /\ team_quarters[i].q4_vs_q1 > 0
          /\ team_quarters[i].q4_avg % 10 # 0

(* ================ properties of the competition tables ================ *)

\* the frames that hold the games of df in another order of the games
GameOrders(df) ==
    LET codes == UniqueGameCodes(df, {})
        RECURSIVE Concat(_, _)
        Concat(order, k) ==
            IF k > Len(codes) THEN <<>>
            ELSE RowsOfGame(df, codes[order[k]]) \o Concat(order, k + 1)
    IN  {Concat(order, 1) : order \in Permutations(1..Len(codes))}

\* the columns of the runs table the merge is compared on
RunColumns(lines) ==
    {[team |-> l.team, runs_made |-> l.runs_made, runs_allowed |-> l.runs_allowed,
      best_run |-> l.best_run, run_diff |-> l.run_diff] : l \in lines}

\* the columns of the comeback table the merge is compared on
ComebackColumns(lines) ==
    {[team |-> l.team, comebacks |-> l.comebacks, comeback_wins |-> l.comeback_wins,
      blown_leads |-> l.blown_leads, blown_losses |-> l.blown_losses] : l \in lines}

\* C22: the competition-level merge does not depend on the order of the
\* games: with the games of the input in any other order, every team has the
\* same runs_made, runs_allowed, best_run and run_diff = runs_made -
\* runs_allowed, and the same comebacks, comeback_wins, blown_leads and
\* blown_losses.
MergeIsOrderIndependent ==
    pc = "done" =>
        \A perm \in GameOrders(pbp_df) :
            LET codes == UniqueGameCodes(perm, {})
            IN  /\ run_df # <<>> =>
                      /\ RunColumns(TeamRunLines(RunsData(run_df, codes)))
                            = RunColumns({team_runs[i] : i \in 1..Len(team_runs)})
                      /\ \A i \in 1..Len(team_runs) :
                            team_runs[i].run_diff
                               = team_runs[i].runs_made - team_runs[i].runs_allowed
                /\ game_df # <<>> =>
                      ComebackColumns(ComebackLines(ComebackData(perm, codes),
                                                    BlownLeadData(perm, codes)))
                         = ComebackColumns({comebacks[i] : i \in 1..Len(comebacks)})

\* a team made runs of different sizes in both games of the competition
RunsInBothGamesWitness ==
    /\ pc = "done"
    /\ Len(runs_data) = 2
    /\ runs_data[1].team = runs_data[2].team
    /\ runs_data[1].game_code # runs_data[2].game_code
    /\ runs_data[1].run_points > runs_data[2].run_points
    /\ \E i \in 1..Len(team_runs) : team_runs[i].runs_made = 2

\* no row of the game moves the running score of the scan: every row repeats
\* the score or falls below it
NoValidScoreChange(rows) ==
    \A order \in TimeSortedOrders(rows) :
        \A k \in 1..Len(order) :
            /\ ScanTrace(order, k)[k].prev_home = 0
            /\ ScanTrace(order, k)[k].prev_away = 0

\* the frame without the rows of game g
WithoutGame(df, g) == SelectSeq(df, LAMBDA e : e.game_code # g)

\* C23: a game whose events are entirely unusable (no row with a valid score
\* change) contributes no run, comeback or blown-lead record, and the records
\* of the other games are the ones computed without that game.
UnusableGameIsolated ==
    pc = "done" =>
        \A g \in {pbp_df[k].game_code : k \in 1..Len(pbp_df)} :
            NoValidScoreChange(RowsOfGame(pbp_df, g)) =>
                LET rest == WithoutGame(pbp_df, g)
                    codes == UniqueGameCodes(rest, {})
                IN  /\ run_df # <<>> =>
                          /\ \A i \in 1..Len(runs_data) : runs_data[i].game_code # g
                          /\ runs_data = RunsData(run_df, codes)
                    /\ game_df # <<>> =>
                          /\ \A i \in 1..Len(comeback_data) :
                                comeback_data[i].game_code # g
                          /\ \A i \in 1..Len(blown_lead_data) :
                                blown_lead_data[i].game_code # g
                          /\ comeback_data = ComebackData(rest, codes)
                          /\ blown_lead_data = BlownLeadData(rest, codes)

\* the first game of the competition is unusable and the second has a run
UnusableGameBesideRunWitness ==
    /\ pc = "done"
    /\ NoValidScoreChange(RowsOfGame(pbp_df, 1))
    /\ Len(RowsOfGame(pbp_df, 1)) > 1
    /\ Len(runs_data) = 1
    /\ runs_data[1].game_code = 2

\* C25: the runs compute_scoring_runs emits do not depend on the order of
\* the events that share a total_seconds value: every order of such events
\* gives the same runs_data (as the order total_seconds, then total score,
\* would).
RunsIndependentOfTieOrder ==
    (pc = "done" /\ run_df # <<>>) =>
        \A sorted \in SortChoices(pbp_df) :
            RunsData(sorted, UniqueGameCodes(pbp_df, {})) = runs_data

(* ================ properties of the comeback report =================== *)

\* C24: when no team has a qualifying deficit, or the input is empty,
\* compute_comeback_stats returns the three frames of the non-empty case
\* (aggregate, comeback details, blown-lead details), all empty, and
\* generate_partite_andamento consumes the result without raising.
EmptyResultSameShapeAndConsumed ==
    /\ (pc \in {"done", "reported"} /\ returned # <<>> /\ comeback_data = <<>>) =>
           returned = TupleOf(<<DataFrame(<<>>), DataFrame(<<>>), DataFrame(<<>>)>>)
    /\ (pc = "reported" /\ comeback_data = <<>>) => raised = ""

(* ------------------- properties of the combined input ----------------- *)

\* the records of game g among the emitted records
RecordsOfGame(records, g) == SelectSeq(records, LAMBDA r : r.game_code = g)

\* C26: each game is analysed as its own unit: for the game of each group, the
\* score sequence scanned for its code holds the rows of that game only, and
\* its run, comeback and blown-lead records in the combined result are the
\* records the analysis gives for the store of its group loaded alone
GameAnalysedAsOwnUnit ==
    pc = "done" =>
        \A st \in {pbp_b_a, pbp_b_b} :
            LET alone == load_pbp_data(st)
                g == alone[1].game_code
            IN  /\ run_df # <<>> =>
                      /\ run_df[g] \in TimeSortedOrders(alone)
                      /\ \A sorted \in SortChoices(alone) :
                            RecordsOfGame(runs_data, g) = RunsData(sorted, <<g>>)
                /\ game_df # <<>> =>
                      /\ game_df[g] = FilteredGame(alone)
                      /\ RecordsOfGame(comeback_data, g) = ComebackData(alone, <<g>>)
                      /\ RecordsOfGame(blown_lead_data, g) = BlownLeadData(alone, <<g>>)

(* ------------------- properties of re-deriving ------------------------ *)

\* C27: re-deriving is idempotent: enriching the written store again gives the
\* store itself, the incremental merge leaves every event of the existing
\* store with the values it had (time_seconds, total_seconds, gap, points and
\* clutch among them), and fixing a fixed frame gives the frame itself
RederivingIsIdempotent ==
    [][/\ enrich_pbp_dataframe(store') = store'
       /\ (pc = "stored" /\ pc' = "merged") => RowsOfGame(store', 1) = store
       /\ (pc = "loaded" /\ pc' = "fixed") => loaded' = loaded]_vars

\* an existing store with two events of equal sort key, the second without
\* points, merged with the events of a later game
MergedBesideTiedEventsWitness ==
    /\ pc = "merged"
    /\ \E k \in 1..Len(store) : store[k].game_code = 2
    /\ \E k \in 1..(Len(store) - 1) :
          /\ store[k].game_code = 1
          /\ store[k + 1].game_code = 1
          /\ store[k].total_seconds = store[k + 1].total_seconds
          /\ store[k].score_home = store[k + 1].score_home
          /\ store[k].score_away = store[k + 1].score_away
          /\ store[k].points > 0
          /\ store[k + 1].points = 0

(* ------------------- properties of the recorded recovery -------------- *)

\* C28: every emitted comeback record has best_after >= -comeback_threshold
\* and best_after > -deficit: the recorded recovery is never worse than the
\* threshold that triggered the record
BestAfterWithinThreshold ==
    \A c \in ComebackRecords :
        /\ c.best_after >= -comeback_threshold
        /\ c.best_after > -c.deficit

\* a comeback record whose recovery is read at the timestamp of the deepest
\* deficit itself: the two rows share their total_seconds
RecoveryAtDeficitTimeWitness ==
    /\ pc = "done"
    /\ \E c \in ComebackRecords :
          /\ c.best_after_time = c.deficit_time
          /\ c.best_after >= -comeback_threshold
          /\ c.deficit >= min_deficit

(* ------------------- properties of the scrape loop -------------------- *)

\* the consecutive empty pages at the end of what the loop did so far
RECURSIVE TrailingEmpties(_)
TrailingEmpties(v) ==
    IF v = <<>> THEN 0
    ELSE IF Last(v).outcome = "empty"
         THEN 1 + TrailingEmpties(SubSeq(v, 1, Len(v) - 1))
         ELSE 0

\* the loop visits the codes from start_code upwards, each once, and its
\* counter is the number of empty pages since the last game or skip
LoopVisitsInOrder ==
    pc \in {"loop", "save"} =>
        /\ \A k \in 1..Len(visited) : visited[k].code = start_code + k - 1
        /\ code = start_code + Len(visited)
        /\ empty_streak = TrailingEmpties(visited)

\* where the loop has stopped: past end_code with every code up to it
\* visited, or right after the max_empty-th empty page in a row
LoopStopsWhereItShould ==
    pc = "save" =>
        IF end_code # <<>>
        THEN Len(visited) = end_code[1] - start_code + 1
        ELSE TrailingEmpties(visited) = max_empty

\* C29: the scrape loop terminates; with end_code set it visits every code
\* from start_code to end_code exactly once and stops; with end_code None it
\* stops exactly when max_empty consecutive fetched pages were empty with no
\* game and no skipped code in between, every game and every skip resetting
\* the streak, and no code is visited after that point
ScrapeLoopTerminates ==
    /\ [](LoopVisitsInOrder /\ LoopStopsWhereItShould)
    /\ [][(pc = "loop" /\ end_code = <<>> /\ TrailingEmpties(visited) >= max_empty)
            => (pc' = "save" /\ visited' = visited)]_vars
    /\ [][(pc = "loop" /\ end_code = <<>> /\ TrailingEmpties(visited) < max_empty)
            => pc' = "loop"]_vars
    /\ (pc = "loop" ~> pc = "save")

\* a loop without end_code that has stopped after a streak of empty pages was
\* reset by a game or by a skipped code
StreakResetBeforeStopWitness ==
    /\ pc = "save"
    /\ end_code = <<>>
    /\ TrailingEmpties(visited) = max_empty
    /\ \E k \in 1..(Len(visited) - 1) :
          /\ visited[k].outcome = "empty"
          /\ visited[k + 1].outcome \in {"game", "skip"}
    /\ \E k \in 1..Len(visited) : visited[k].outcome = "skip"

(* ------------------- properties of the three stores ------------------- *)

\* the last run was an incremental run with include_pbp and has completed
IncrementalPbpRunCompleted ==
    pc = "idle" /\ runs_done > 0 /\ incremental /\ include_pbp

\* the events and the quarter record of game g are in their stores
PbpStored(g) == g \in pbp_file /\ g \in quarters_file

\* C30 as stated: once an incremental run with include_pbp has completed,
\* every game of the statistics store whose page has play-by-play events has
\* its events and its quarter record in the play-by-play and quarters stores
StoredGamesHavePbp ==
    IncrementalPbpRunCompleted =>
        \A g \in stats_file : PageOf(site, g) = "game_pbp" => PbpStored(g)

\* C30 amended: once an incremental run with include_pbp has completed, every
\* game that this run fetched (a game it did not skip as already present in
\* the statistics store) and whose page has play-by-play events has its events
\* and its quarter record in the play-by-play and quarters stores
FetchedGamesHavePbp ==
    IncrementalPbpRunCompleted =>
        \A g \in new_games : PageOf(site, g) = "game_pbp" => PbpStored(g)

\* an incremental run with include_pbp that fetched a game with events while
\* the stores already held the events of an earlier game
FetchedBesideExistingWitness ==
    /\ IncrementalPbpRunCompleted
    /\ \E g \in new_games : PageOf(site, g) = "game_pbp" /\ PbpStored(g)
    /\ \E g \in pbp_file \ new_games : g \in stats_file

====
